---- MODULE Spec2Model ----
(***************************************************************************)
(* State-machine model of the APort integrations repository:               *)
(*   - the Express middleware template                                     *)
(*       (templates/javascript-middleware/src/index.js),                   *)
(*   - the CLI verification client (APortClient, cli/src/client.js) and    *)
(*     the commands and scripts that interpret its responses,              *)
(*   - the APortClient object itself: its construction, its methods and    *)
(*     concurrent calls on one instance.                                   *)
(* JavaScript values are modelled as tagged records so that typeof and     *)
(* truthiness are computed as the interpreter computes them.               *)
(***************************************************************************)
EXTENDS Integers, Sequences, FiniteSets, TLC

VARIABLES
    pc,          \* position of the Express application / of the request in flight
    client,      \* class of the client object createAPortMiddleware constructed
    sdkMock,     \* the @aporthq/sdk-node APortClient double configured by the application
    route,       \* the guarded route: policy and middlewareOptions given to requirePolicy
    req,         \* the request in flight (headers, query, body, req.aport)
    res,         \* the response sent for it (res.status(..).json(..))
    nextCalls,   \* number of times next() has been called for the request
    verifyLog,   \* calls made to client.verify: policy, agentId, options, outcome
    handlerRan,  \* whether the protected route handler has run
    resolved,    \* result of a direct extractAgentId call
    caller,      \* the program using the verification client (CLI command, script, ...)
    input,       \* that program's inputs (command line, environment, test case)
    call,        \* arguments of the verify call in flight
    net,         \* HTTP requests handed to the transport, in order
    reply,       \* what came back for the last request
    outcome,     \* how the verify call settled: returned value or thrown error
    report,      \* what the calling program printed and its exit status
    processEnv,  \* process.env when the APortClient object was constructed
    ctorOptions, \* the options given to new APortClient(options)
    config,      \* the APortClient object: apiKey, baseUrl and its axios instance
    calls,       \* the method calls made on that object, each with its requests
    nextEnv,     \* the Next.js deployment: process.env, globalThis, installed modules
    nextClient,  \* the client object the middleware module chose when it was loaded
    nextRequest, \* the request the Next.js application is serving
    nextResponse, \* what the middleware returned for it (NextResponse.next() / .json())
    nextVerifyLog, \* calls the middleware made to client.verify, with their outcome
    served       \* the HTTP response the caller receives in the end

clientVars == <<caller, input, call, net, reply, outcome, report>>

apiVars == <<processEnv, ctorOptions, config, calls>>

nextVars == <<nextEnv, nextClient, nextRequest, nextResponse, nextVerifyLog, served>>

vars == <<pc, client, sdkMock, route, req, res, nextCalls, verifyLog, handlerRan, resolved,
          caller, input, call, net, reply, outcome, report,
          processEnv, ctorOptions, config, calls,
          nextEnv, nextClient, nextRequest, nextResponse, nextVerifyLog, served>>

(***************************************************************************)
(* Bounds                                                                  *)
(***************************************************************************)
\* number of distinct agent identifiers a request source can carry
NumAgentIds == 3
\* number of distinct agent identifiers in requests to the guarded route
NumRequestIds == 2
\* number of method calls that can be in flight on one client
NumCalls == 2

(***************************************************************************)
(* JavaScript values                                                       *)
(***************************************************************************)
Undefined == [type |-> "undefined"]

Null == [type |-> "null"]

Str(s) == [type |-> "string", str |-> s]

Num(n) == [type |-> "number", num |-> n]

\* typeof v === "string"
IsString(v) == v.type = "string"

\* ToBoolean(v): "", 0, false, null and undefined are falsy
Truthy(v) ==
    CASE v.type = "string" -> v.str # ""
      [] v.type = "number" -> v.num # 0
      [] v.type = "boolean" -> v.bool
      [] v.type \in {"object", "array"} -> TRUE
      [] OTHER -> FALSE

Bool(b) == [type |-> "boolean", bool |-> b]

Arr(items) == [type |-> "array", items |-> items]

\* a plain object used as a map, as a set of <<key, value>> entries
ObjMap(entries) == [type |-> "object", entries |-> entries]

\* a || b
OrElse(a, b) == IF Truthy(a) THEN a ELSE b

\* `${v}` in a template literal
JsToString(v) ==
    CASE v.type = "string" -> v.str
      [] v.type = "number" -> IF v.num = 42 THEN "42" ELSE "0"
      [] v.type = "null" -> "null"
      [] OTHER -> "undefined"

AgentIdNames == <<"agt_1", "agt_2", "agt_3", "agt_4", "agt_5">>

AgentIds(n) == {AgentIdNames[i] : i \in 1..n}

\* what a header can hold: absent, empty, or an identifier
HeaderValues(n) == {Undefined, Str("")} \cup {Str(a) : a \in AgentIds(n)}

\* what a parsed query parameter, body field or option can hold
FieldValues(n) == HeaderValues(n) \cup {Num(42)}

Requests(n) ==
    [headers : [xAgentId : HeaderValues(n), xAportAgentId : HeaderValues(n)],
     query : [agent_id : FieldValues(n)],
     body : [agent_id : FieldValues(n), agentId : FieldValues(n)],
     method : {"POST"},
     path : {"/refund"},
     userAgent : {"node-superagent"},
     ip : {"127.0.0.1"},
     aport : {Undefined}]

NoRequest ==
    [headers |-> [xAgentId |-> Undefined, xAportAgentId |-> Undefined],
     query |-> [agent_id |-> Undefined],
     body |-> [agent_id |-> Undefined, agentId |-> Undefined],
     method |-> "POST",
     path |-> "/refund",
     userAgent |-> "node-superagent",
     ip |-> "127.0.0.1",
     aport |-> Undefined]

Policies == {"finance.payment.refund.v1", "payments.refund.v1"}

StrictValues == {"undefined", "true", "false"}

\* middlewareOptions.context: absent, or entries that override the request's
OptionContexts == {Undefined, ObjMap({<<"path", "/admin">>, <<"endpoint", "admin">>})}

MiddlewareOptions(n) ==
    [agentId : {Undefined} \cup {Str(AgentIdNames[n])},
     strict : StrictValues,
     context : OptionContexts]

NoRoute ==
    [policy |-> "",
     options |-> [agentId |-> Undefined, strict |-> "undefined", context |-> Undefined]]

NoResponse == [status |-> 0]

NoCall == [op |-> "none"]

NoReport == [exit |-> -1]

\* no program is using the verification client
ClientIdle ==
    /\ caller = "none"
    /\ input = [kind |-> "none"]
    /\ call = NoCall
    /\ net = <<>>
    /\ reply = [kind |-> "none"]
    /\ outcome = [kind |-> "pending"]
    /\ report = NoReport

\* no APortClient object has been constructed
ApiIdle ==
    /\ processEnv = [APORT_API_KEY |-> Undefined, APORT_BASE_URL |-> Undefined]
    /\ ctorOptions = [apiKey |-> Undefined, baseUrl |-> Undefined]
    /\ config = [kind |-> "none"]
    /\ calls = [i \in 1..NumCalls |->
                   [op |-> "none", args |-> <<>>, state |-> "idle", sent |-> <<>>,
                    replies |-> <<>>, outcome |-> [kind |-> "pending"]]]

\* the Next.js application is not running
NoNextRequest ==
    [path |-> "",
     headers |-> [xAgentId |-> Null, xAportAgentId |-> Null,
                  xAportVerified |-> Null, xAportPassport |-> Null],
     query |-> [agent_id |-> Null],
     body |-> Undefined]

NoNextResponse == [kind |-> "none"]

NotServed == [status |-> 0]

NextIdle ==
    /\ nextEnv = [NODE_ENV |-> Undefined, APORT_API_KEY |-> Undefined,
                  sdkInstalled |-> FALSE, globalNODE_ENV |-> Undefined]
    /\ nextClient = "none"
    /\ nextRequest = NoNextRequest
    /\ nextResponse = NoNextResponse
    /\ nextVerifyLog = <<>>
    /\ served = NotServed

(***************************************************************************)
(* extractAgentId                                                          *)
(***************************************************************************)
\* the six sources, in the order of the array literal
AgentIdSources(r, options) ==
    << r.headers.xAgentId,
       r.headers.xAportAgentId,
       r.query.agent_id,
       r.body.agent_id,
       r.body.agentId,
       options.agentId >>

\* variant: the typeof test is dropped, any truthy value qualifies
RECURSIVE FirstTruthy(_, _)
FirstTruthy(sources, i) ==
    IF i > Len(sources) THEN Null
    ELSE IF Truthy(sources[i]) THEN sources[i]
    ELSE FirstTruthy(sources, i + 1)

RECURSIVE FirstQualifying(_, _)
FirstQualifying(sources, i) ==
    IF i > Len(sources) THEN Null
    ELSE IF Truthy(sources[i]) /\ IsString(sources[i]) THEN sources[i]
    ELSE FirstQualifying(sources, i + 1)

extractAgentId(r, options) == FirstQualifying(AgentIdSources(r, options), 1)

(***************************************************************************)
(* MockAPortClient (Express template)                                      *)
(***************************************************************************)
MockVerify(policy, agentId, options) ==
    [kind |-> "return",
     value |-> [verified |-> TRUE,
                passport |-> [agentId |-> agentId,
                              capabilities |-> <<"read", "write">>,
                              limits |-> [requests |-> 1000, period |-> "1h"]],
                policy |-> policy,
                message |-> Str("Mock verification successful"),
                details |-> Undefined]]

\* client.verify(...) as dispatched on the object createAPortMiddleware built
ClientVerify(impl, policy, agentId, options) == MockVerify(policy, agentId, options)

(***************************************************************************)
(* requirePolicy: the middleware function                                  *)
(***************************************************************************)
\* {...a, ...b}: the entries of b replace those of a with the same key
Spread(a, b) == {e \in a : \A f \in b : f[1] # e[1]} \cup b

\* the options object passed to client.verify
VerifyContext(r, options) ==
    [context |-> ObjMap(Spread({<<"method", r.method>>,
                                <<"path", r.path>>,
                                <<"userAgent", r.userAgent>>,
                                <<"ip", r.ip>>},
                               IF options.context.type = "object"
                               THEN options.context.entries ELSE {}))]

JsonError(status, error, message) ==
    [status |-> status, error |-> error, message |-> message]

\* variant: policy and agentId are attached to req.aport the wrong way round
AfterVerify_SwappedAttach(policy, options, agentId, out) ==
    IF out.kind = "return" /\ out.value.verified
    THEN [res |-> NoResponse,
          next |-> 1,
          aport |-> [verified |-> TRUE,
                     passport |-> out.value.passport,
                     policy |-> agentId,
                     agentId |-> policy,
                     result |-> out.value]]
    ELSE [res |-> JsonError(500, "Verification error", "Internal verification error"),
          next |-> 0,
          aport |-> Undefined]

\* the try block after the agent ID was found and client.verify settled
AfterVerify(policy, options, agentId, out) ==
    IF out.kind = "throw"
    THEN IF options.strict # "false"
         THEN [res |-> JsonError(500, "Verification error", "Internal verification error"),
               next |-> 0,
               aport |-> Undefined]
         ELSE [res |-> NoResponse,
               next |-> 1,
               aport |-> [verified |-> FALSE, error |-> out.message]]
    ELSE IF ~out.value.verified
    THEN [res |-> JsonError(403, "Verification failed",
                            IF Truthy(out.value.message) THEN out.value.message.str
                            ELSE "Agent verification failed"),
          next |-> 0,
          aport |-> Undefined]
    ELSE [res |-> NoResponse,
          next |-> 1,
          aport |-> [verified |-> TRUE,
                     passport |-> out.value.passport,
                     policy |-> policy,
                     agentId |-> agentId,
                     result |-> out.value]]

\* variant: the missing-ID check is dropped and verification runs regardless
requirePolicyOutcome_NoIdCheck(impl, policy, options, r) ==
    LET found == extractAgentId(r, options)
        agentId == IF IsString(found) THEN found.str ELSE "null"
        out == ClientVerify(impl, policy, agentId, VerifyContext(r, options))
        after == AfterVerify(policy, options, agentId, out)
    IN [res |-> after.res,
        next |-> after.next,
        aport |-> after.aport,
        calls |-> << [policy |-> policy, agentId |-> agentId,
                      options |-> VerifyContext(r, options), outcome |-> out] >>]

\* variant: the 400 response is sent without returning, so that verification
\* and next() still follow it
requirePolicyOutcome_MissingReturn(impl, policy, options, r) ==
    LET found == extractAgentId(r, options)
        agentId == IF IsString(found) THEN found.str ELSE "null"
        out == ClientVerify(impl, policy, agentId, VerifyContext(r, options))
        after == AfterVerify(policy, options, agentId, out)
    IN [res |-> IF ~Truthy(found)
                THEN JsonError(400, "Agent ID required",
                               "Agent ID must be provided in headers, query, or body")
                ELSE after.res,
        next |-> after.next,
        aport |-> after.aport,
        calls |-> << [policy |-> policy, agentId |-> agentId,
                      options |-> VerifyContext(r, options), outcome |-> out] >>]

\* effect of one run of the middleware on (res, next, req.aport, calls to verify)
requirePolicyOutcome(impl, policy, options, r) ==
    LET agentId == extractAgentId(r, options) IN
    IF ~Truthy(agentId)
    THEN [res |-> JsonError(400, "Agent ID required",
                            "Agent ID must be provided in headers, query, or body"),
          next |-> 0,
          aport |-> Undefined,
          calls |-> <<>>]
    ELSE LET out == ClientVerify(impl, policy, agentId.str, VerifyContext(r, options))
             after == AfterVerify(policy, options, agentId.str, out)
         IN [res |-> after.res,
             next |-> after.next,
             aport |-> after.aport,
             calls |-> << [policy |-> policy, agentId |-> agentId.str,
                           options |-> VerifyContext(r, options), outcome |-> out] >>]

(***************************************************************************)
(* The Express application                                                 *)
(***************************************************************************)
SdkBehaviours == {"resolve_verified", "resolve_unverified", "resolve_unverified_nomsg", "reject"}

InitExpress ==
    /\ pc = "start"
    /\ client = "none"
    /\ sdkMock \in [behaviour : SdkBehaviours, calls : {<<>>}]
    /\ route = NoRoute
    /\ req = NoRequest
    /\ res = NoResponse
    /\ nextCalls = 0
    /\ verifyLog = <<>>
    /\ handlerRan = FALSE
    /\ resolved = [done |-> FALSE]
    /\ ClientIdle
    /\ ApiIdle
    /\ NextIdle

createAPortMiddleware ==
    /\ pc = "start"
    /\ client' = "MockAPortClient"
    /\ pc' = "created"
    /\ UNCHANGED <<sdkMock, route, req, res, nextCalls, verifyLog, handlerRan, resolved, clientVars, apiVars, nextVars>>

\* app.post("/refund", aportMiddleware(policy, middlewareOptions), handler)
MountRoute ==
    /\ pc = "created"
    /\ \E p \in Policies, o \in MiddlewareOptions(NumRequestIds) :
          route' = [policy |-> p, options |-> o]
    /\ pc' = "listening"
    /\ UNCHANGED <<client, sdkMock, req, res, nextCalls, verifyLog, handlerRan, resolved, clientVars, apiVars, nextVars>>

ReceiveRequest ==
    /\ pc = "listening"
    /\ req' \in Requests(NumRequestIds)
    /\ pc' = "middleware"
    /\ UNCHANGED <<client, sdkMock, route, res, nextCalls, verifyLog, handlerRan, resolved, clientVars, apiVars, nextVars>>

requirePolicy ==
    /\ pc = "middleware"
    /\ LET o == requirePolicyOutcome(client, route.policy, route.options, req) IN
          /\ res' = o.res
          /\ nextCalls' = nextCalls + o.next
          /\ req' = [req EXCEPT !.aport = o.aport]
          /\ verifyLog' = verifyLog \o o.calls
          /\ pc' = IF o.next > 0 THEN "handler" ELSE "responded"
    /\ UNCHANGED <<client, sdkMock, route, handlerRan, resolved, clientVars, apiVars, nextVars>>

\* the protected handler: res.json({success: true, agentId: req.aport.agentId})
routeHandler ==
    /\ pc = "handler"
    /\ handlerRan' = TRUE
    /\ res' = [status |-> 200, success |-> TRUE,
               agentId |-> IF req.aport.verified THEN Str(req.aport.agentId) ELSE Undefined]
    /\ pc' = "responded"
    /\ UNCHANGED <<client, sdkMock, route, req, nextCalls, verifyLog, resolved, clientVars, apiVars, nextVars>>

NextExpress ==
    \/ createAPortMiddleware
    \/ MountRoute
    \/ ReceiveRequest
    \/ requirePolicy
    \/ routeHandler

SpecExpress == InitExpress /\ [][NextExpress]_vars

(***************************************************************************)
(* Direct use of the exported extractAgentId                               *)
(***************************************************************************)
ResolverOptions(n) == [agentId : FieldValues(n), strict : {"undefined"}, context : {Undefined}]

InitResolver ==
    /\ pc = "resolver"
    /\ client = "none"
    /\ sdkMock = [behaviour |-> "resolve_verified", calls |-> <<>>]
    /\ route \in [policy : {""}, options : ResolverOptions(NumAgentIds)]
    /\ req \in Requests(NumAgentIds)
    /\ res = NoResponse
    /\ nextCalls = 0
    /\ verifyLog = <<>>
    /\ handlerRan = FALSE
    /\ resolved = [done |-> FALSE]
    /\ ClientIdle
    /\ ApiIdle
    /\ NextIdle

CallExtractAgentId ==
    /\ pc = "resolver"
    /\ ~resolved.done
    /\ resolved' = [done |-> TRUE, value |-> extractAgentId(req, route.options)]
    /\ UNCHANGED <<pc, client, sdkMock, route, req, res, nextCalls, verifyLog, handlerRan, clientVars, apiVars, nextVars>>

NextResolver == CallExtractAgentId

SpecResolver == InitResolver /\ [][NextResolver]_vars

(***************************************************************************)
(* Verify responses of the service                                         *)
(***************************************************************************)
ReasonLists ==
    {Undefined,
     Arr(<<>>),
     Arr(<<[code |-> Str("oap.content_too_long"), message |-> Str("Message exceeds limit")]>>)}

\* decision objects: allow and reasons may each be missing
Decisions ==
    [type : {"object"},
     allow : {Bool(TRUE), Bool(FALSE), Undefined},
     reasons : ReasonLists,
     decision_id : {Str("dec_1")},
     expires_in : {Num(42)}]

DecisionValues == {Undefined, Null} \cup Decisions

DataValues == {Undefined} \cup [type : {"object"}, decision : DecisionValues]

\* bodies of a 200 answer: {data: {decision}}, {decision}, both, or neither
Bodies == [type : {"object"}, data : DataValues, decision : DecisionValues]

ErrorStatuses == {401, 403, 404, 500, 503}

StatusText(status) ==
    CASE status = 401 -> "Unauthorized"
      [] status = 403 -> "Forbidden"
      [] status = 404 -> "Not Found"
      [] status = 503 -> "Service Unavailable"
      [] OTHER -> "Internal Server Error"

\* bodies of an error answer: a JSON object with or without a message, or the
\* text of a gateway's error page
ErrorBodies ==
    [type : {"object"}, message : {Undefined, Str(""), Str("Agent not found")}]
    \cup {Str("<html>Bad Gateway</html>")}

\* what the transport delivers when no response is received (error.message)
TransportFailures == {"timeout of 10000ms exceeded", "Network Error"}

Replies ==
    [kind : {"response"}, status : {200}, data : Bodies]
    \cup [kind : {"response"}, status : ErrorStatuses, data : ErrorBodies]
    \cup [kind : {"no_response"}, message : TransportFailures]

(***************************************************************************)
(* APortClient.verify                                                      *)
(***************************************************************************)
\* variant: the body names a fixed policy instead of the one in the path
VerifyRequest_FixedPolicyId(policy, agentId, context) ==
    [method |-> "POST",
     path |-> <<"api", "verify", "policy", JsToString(policy)>>,
     data |-> [context |-> [agent_id |-> agentId,
                            policy_id |-> Str("payments.refund.v1"),
                            context |-> context]]]

\* the request handed to this.client.post
VerifyRequest(policy, agentId, context) ==
    [method |-> "POST",
     path |-> <<"api", "verify", "policy", JsToString(policy)>>,
     data |-> [context |-> [agent_id |-> agentId,
                            policy_id |-> policy,
                            context |-> context]]]

\* new Error(message)
ThrowError(message) == [kind |-> "throw", name |-> "Error", message |-> message]

\* error.response.data.message: undefined on a body that is not an object
DataMessage(data) == IF data.type = "object" THEN data.message ELSE Undefined

\* the catch block shared by the client's methods: what is thrown for a
\* request that did not succeed
CatchRequestError(r) ==
    IF r.kind = "response"
    THEN ThrowError("API Error: " \o (IF Truthy(DataMessage(r.data))
                                      THEN DataMessage(r.data).str
                                      ELSE StatusText(r.status)))
    ELSE ThrowError("Network Error: " \o r.message)

\* variant: a request that got no response settles as a refusal
VerifyOutcome_NoResponseAsDeny(r) ==
    IF r.kind = "response" /\ r.status = 200
    THEN [kind |-> "return", value |-> r.data]
    ELSE IF r.kind = "response"
    THEN CatchRequestError(r)
    ELSE [kind |-> "return",
          value |-> [type |-> "object", data |-> Undefined,
                     decision |-> [type |-> "object", allow |-> Bool(FALSE),
                                   reasons |-> Undefined,
                                   decision_id |-> Str("dec_1"),
                                   expires_in |-> Num(42)]]]

\* variant: the message of the error body is ignored
VerifyOutcome_StatusTextOnly(r) ==
    IF r.kind = "response" /\ r.status = 200
    THEN [kind |-> "return", value |-> r.data]
    ELSE IF r.kind = "response"
    THEN ThrowError("API Error: " \o StatusText(r.status))
    ELSE ThrowError("Network Error: " \o r.message)

\* how verify settles once the transport has answered
VerifyOutcome(r) ==
    IF r.kind = "response" /\ r.status = 200
    THEN [kind |-> "return", value |-> r.data]
    ELSE CatchRequestError(r)

\* verify(policy, agentId, context = {}) up to the await: one POST is issued
verifySend ==
    /\ pc = "called"
    /\ call.op = "verify"
    /\ net' = Append(net, VerifyRequest(call.policy, call.agentId, call.context))
    /\ pc' = "awaiting"
    /\ UNCHANGED <<caller, input, call, reply, outcome, report>>
    /\ UNCHANGED <<client, sdkMock, route, req, res, nextCalls, verifyLog, handlerRan, resolved, apiVars, nextVars>>

\* verify after the await: the answer arrives and the call returns or throws
verifySettle ==
    /\ pc = "awaiting"
    /\ call.op = "verify"
    /\ \E r \in Replies :
          /\ reply' = r
          /\ outcome' = VerifyOutcome(r)
    /\ pc' = "settled"
    /\ UNCHANGED <<caller, input, call, net, report>>
    /\ UNCHANGED <<client, sdkMock, route, req, res, nextCalls, verifyLog, handlerRan, resolved, apiVars, nextVars>>

(***************************************************************************)
(* Reading the decision out of a verify result                             *)
(***************************************************************************)
\* result.data?.decision
DataDecision(result) ==
    IF result.data.type \in {"undefined", "null"} THEN Undefined ELSE result.data.decision

\* variant: only the nested shape is read
DecisionDataOnly(result) == DataDecision(result)

\* result.data?.decision || result.decision
DecisionDataFirst(result) == OrElse(DataDecision(result), result.decision)

\* result.decision || result.data?.decision
DecisionTopLevelFirst(result) == OrElse(result.decision, DataDecision(result))

\* variant: only an explicit allow=false counts as a refusal
IsApproved_UnlessDenied(decision) == Truthy(decision) /\ decision.allow # Bool(FALSE)

\* decision && decision.allow, as a condition
IsApproved(decision) == Truthy(decision) /\ Truthy(decision.allow)

\* decision.reasons.map((r) => r.message) when reasons is a non-empty array
ReasonMessages(decision) ==
    IF Truthy(decision) /\ Truthy(decision.reasons) /\ Len(decision.reasons.items) > 0
    THEN [i \in 1..Len(decision.reasons.items) |-> decision.reasons.items[i].message.str]
    ELSE <<>>

(***************************************************************************)
(* CLI: the verify command                                                 *)
(***************************************************************************)
SAMPLE_AGENTS ==
    {"ap_a2d10232c6534523812423eec8a1425c",
     "ap_b804b365003247888c06c94347cf54fe",
     "ap_4343a3f0c90948a59ee1c05bf019f9ac"}

InteractivePolicies == {"payments.refund.v1", "data.export.v1", "repo.v1", "admin.access.v1"}

\* JSON.parse on the context strings used as inputs
ParseJson(s) ==
    CASE s = "{}" -> [ok |-> TRUE, value |-> ObjMap({})]
      [] s = "{\"amount\":50}" -> [ok |-> TRUE, value |-> ObjMap({<<"amount", 50>>})]
      [] OTHER -> [ok |-> FALSE]

CliVerifyInputs ==
    [kind : {"verify"},
     posAgentId : {Undefined, Str(""), Str("ap_pos")},
     optAgentId : {Undefined, Str("ap_opt")},
     posPolicy : {Undefined, Str(""), Str("payments.refund.v1")},
     optPolicy : {Undefined, Str("data.export.v1")},
     posContext : {Undefined, Str("{}")},
     optContext : {Undefined, Str("{\"amount\":50}"), Str("{bad")},
     interactive : {FALSE},
     answers : {[agent |-> Undefined, policy |-> Undefined, context |-> Undefined]}]
    \cup
    [kind : {"verify"},
     posAgentId : {Undefined},
     optAgentId : {Undefined},
     posPolicy : {Undefined},
     optPolicy : {Undefined},
     posContext : {Undefined},
     optContext : {Undefined},
     interactive : {TRUE},
     answers : [agent : {Str(a) : a \in SAMPLE_AGENTS},
                policy : {Str(p) : p \in InteractivePolicies},
                context : {Str("{}"), Str("{bad")}]]

\* variant: the required-arguments check is missing
CliVerifyStartOutcome_NoCheck(in) ==
    LET agentId == IF in.interactive THEN in.answers.agent
                   ELSE OrElse(in.posAgentId, in.optAgentId)
        policy == IF in.interactive THEN in.answers.policy
                  ELSE OrElse(in.posPolicy, in.optPolicy)
        context == IF in.interactive THEN in.answers.context
                   ELSE OrElse(in.posContext, in.optContext)
    IN IF Truthy(context) /\ ~ParseJson(context.str).ok
       THEN [exit |-> 1, error |-> "Invalid JSON context"]
       ELSE [exit |-> -1,
             call |-> [op |-> "verify",
                       policy |-> policy,
                       agentId |-> agentId,
                       context |-> IF Truthy(context)
                                   THEN ParseJson(context.str).value
                                   ELSE ObjMap({})]]

\* the command up to the call of client.verify
CliVerifyStartOutcome(in) ==
    LET agentId == IF in.interactive THEN in.answers.agent
                   ELSE OrElse(in.posAgentId, in.optAgentId)
        policy == IF in.interactive THEN in.answers.policy
                  ELSE OrElse(in.posPolicy, in.optPolicy)
        context == IF in.interactive THEN in.answers.context
                   ELSE OrElse(in.posContext, in.optContext)
    IN IF ~Truthy(agentId) \/ ~Truthy(policy)
       THEN [exit |-> 1, error |-> "Agent ID and policy are required"]
       ELSE IF Truthy(context) /\ ~ParseJson(context.str).ok
       THEN [exit |-> 1, error |-> "Invalid JSON context"]
       ELSE [exit |-> -1,
             call |-> [op |-> "verify",
                       policy |-> policy,
                       agentId |-> agentId,
                       context |-> IF Truthy(context)
                                   THEN ParseJson(context.str).value
                                   ELSE ObjMap({})]]

CliVerifyStart ==
    /\ pc = "shell"
    /\ \E in \in CliVerifyInputs :
          LET o == CliVerifyStartOutcome(in) IN
          /\ input' = in
          /\ caller' = "cli_verify"
          /\ IF o.exit = 1
             THEN /\ report' = o
                  /\ call' = call
                  /\ pc' = "exited"
             ELSE /\ report' = report
                  /\ call' = o.call
                  /\ pc' = "called"
    /\ UNCHANGED <<net, reply, outcome>>
    /\ UNCHANGED <<client, sdkMock, route, req, res, nextCalls, verifyLog, handlerRan, resolved, apiVars, nextVars>>

\* variant: the reasons of an approved decision are not printed
CliVerifyReportOutcome_NoNotes(out) ==
    IF out.kind = "throw"
    THEN [exit |-> 1, error |-> out.message]
    ELSE LET decision == DecisionDataFirst(out.value) IN
         IF IsApproved(decision)
         THEN [exit |-> 0,
               verdict |-> "successful",
               approved |-> TRUE,
               reasons |-> <<>>,
               unknown |-> FALSE,
               details |-> FALSE]
         ELSE [exit |-> 0,
               verdict |-> "failed",
               approved |-> FALSE,
               reasons |-> ReasonMessages(decision),
               unknown |-> ReasonMessages(decision) = <<>>,
               details |-> Truthy(decision)]

\* what the command prints once verify has settled
CliVerifyReportOutcome(out) ==
    IF out.kind = "throw"
    THEN [exit |-> 1, error |-> out.message]
    ELSE LET decision == DecisionDataFirst(out.value) IN
         IF IsApproved(decision)
         THEN [exit |-> 0,
               verdict |-> "successful",
               approved |-> TRUE,
               reasons |-> ReasonMessages(decision),
               unknown |-> FALSE,
               details |-> FALSE]
         ELSE [exit |-> 0,
               verdict |-> "failed",
               approved |-> FALSE,
               reasons |-> ReasonMessages(decision),
               unknown |-> ReasonMessages(decision) = <<>>,
               details |-> Truthy(decision)]

CliVerifyReport ==
    /\ pc = "settled"
    /\ caller = "cli_verify"
    /\ report' = CliVerifyReportOutcome(outcome)
    /\ pc' = "exited"
    /\ UNCHANGED <<caller, input, call, net, reply, outcome>>
    /\ UNCHANGED <<client, sdkMock, route, req, res, nextCalls, verifyLog, handlerRan, resolved, apiVars, nextVars>>

(***************************************************************************)
(* APortClient.verifyPolicy and the CLI's policy command                   *)
(***************************************************************************)
\* the POST of verifyPolicy(policy, agentId, context = {})
VerifyPolicyRequest(policy, agentId, context) ==
    [method |-> "POST",
     path |-> <<"api", "verify", "policy", JsToString(policy)>>,
     data |-> [context |-> [agent_id |-> agentId,
                            policy_id |-> policy,
                            context |-> context]]]

\* how verifyPolicy settles once the transport has answered
VerifyPolicyOutcome(r) ==
    IF r.kind = "response" /\ r.status = 200
    THEN [kind |-> "return", value |-> r.data]
    ELSE IF r.kind = "response"
    THEN ThrowError("API Error: " \o (IF Truthy(DataMessage(r.data))
                                      THEN DataMessage(r.data).str
                                      ELSE StatusText(r.status)))
    ELSE ThrowError("Network Error: " \o r.message)

verifyPolicySend ==
    /\ pc = "called"
    /\ call.op = "verifyPolicy"
    /\ net' = Append(net, VerifyPolicyRequest(call.policy, call.agentId, call.context))
    /\ pc' = "awaiting"
    /\ UNCHANGED <<caller, input, call, reply, outcome, report>>
    /\ UNCHANGED <<client, sdkMock, route, req, res, nextCalls, verifyLog, handlerRan, resolved, apiVars, nextVars>>

verifyPolicySettle ==
    /\ pc = "awaiting"
    /\ call.op = "verifyPolicy"
    /\ \E r \in Replies :
          /\ reply' = r
          /\ outcome' = VerifyPolicyOutcome(r)
    /\ pc' = "settled"
    /\ UNCHANGED <<caller, input, call, net, report>>
    /\ UNCHANGED <<client, sdkMock, route, req, res, nextCalls, verifyLog, handlerRan, resolved, apiVars, nextVars>>

\* property `name` of a result object: undefined when the object has none
ResultField(result, name) ==
    IF name \in DOMAIN result THEN result[name] ELSE Undefined

CliPolicyInputs ==
    [kind : {"policy"},
     optAgentId : {Undefined, Str("ap_opt")},
     optPolicy : {Undefined, Str("payments.refund.v1")},
     optContext : {Undefined, Str("{\"amount\":50}"), Str("{bad")}]

\* the policy command up to the call of client.verifyPolicy
CliPolicyStartOutcome(in) ==
    IF ~Truthy(in.optAgentId) \/ ~Truthy(in.optPolicy)
    THEN [exit |-> 1, error |-> "Agent ID and policy are required"]
    ELSE IF Truthy(in.optContext) /\ ~ParseJson(in.optContext.str).ok
    THEN [exit |-> 1, error |-> "Invalid JSON context"]
    ELSE [exit |-> -1,
          call |-> [op |-> "verifyPolicy",
                    policy |-> in.optPolicy,
                    agentId |-> in.optAgentId,
                    context |-> IF Truthy(in.optContext)
                                THEN ParseJson(in.optContext.str).value
                                ELSE ObjMap({})]]

CliPolicyStart ==
    /\ pc = "shell"
    /\ \E in \in CliPolicyInputs :
          LET o == CliPolicyStartOutcome(in) IN
          /\ input' = in
          /\ caller' = "cli_policy"
          /\ IF o.exit = 1
             THEN /\ report' = o
                  /\ call' = call
                  /\ pc' = "exited"
             ELSE /\ report' = report
                  /\ call' = o.call
                  /\ pc' = "called"
    /\ UNCHANGED <<net, reply, outcome>>
    /\ UNCHANGED <<client, sdkMock, route, req, res, nextCalls, verifyLog, handlerRan, resolved, apiVars, nextVars>>

\* what the policy command prints once verifyPolicy has settled
CliPolicyReportOutcome(out) ==
    IF out.kind = "throw"
    THEN [exit |-> 1, error |-> out.message]
    ELSE IF Truthy(ResultField(out.value, "verified"))
    THEN [exit |-> 0,
          verdict |-> "successful",
          approved |-> TRUE,
          reason |-> ""]
    ELSE [exit |-> 0,
          verdict |-> "failed",
          approved |-> FALSE,
          reason |-> IF Truthy(ResultField(out.value, "reason"))
                     THEN ResultField(out.value, "reason").str
                     ELSE "Unknown"]

CliPolicyReport ==
    /\ pc = "settled"
    /\ caller = "cli_policy"
    /\ report' = CliPolicyReportOutcome(outcome)
    /\ pc' = "exited"
    /\ UNCHANGED <<caller, input, call, net, reply, outcome>>
    /\ UNCHANGED <<client, sdkMock, route, req, res, nextCalls, verifyLog, handlerRan, resolved, apiVars, nextVars>>

(***************************************************************************)
(* A program calling client.verify directly (library use, unit tests)      *)
(***************************************************************************)
LibraryArgValues == {Undefined, Str(""), Num(42), Str("payments.refund.v1"), Str("test-agent")}

LibraryContexts == {Undefined, ObjMap({}), ObjMap({<<"amount", 100>>})}

LibraryVerify ==
    /\ pc = "shell"
    /\ \E p \in LibraryArgValues, a \in LibraryArgValues, c \in LibraryContexts :
          /\ input' = [kind |-> "library", policy |-> p, agentId |-> a, context |-> c]
          /\ call' = [op |-> "verify", policy |-> p, agentId |-> a,
                      context |-> IF c = Undefined THEN ObjMap({}) ELSE c]
    /\ caller' = "library"
    /\ pc' = "called"
    /\ UNCHANGED <<net, reply, outcome, report>>
    /\ UNCHANGED <<client, sdkMock, route, req, res, nextCalls, verifyLog, handlerRan, resolved, apiVars, nextVars>>

(***************************************************************************)
(* The messaging / data-export policy test scripts                         *)
(***************************************************************************)
TestCases ==
    {[name |-> "Valid basic message",
      context |-> ObjMap({<<"channel_id", "general">>, <<"message_type", "text">>}),
      shouldPass |-> TRUE,
      expectedReason |-> Undefined],
     [name |-> "Message too long (>2000 chars)",
      context |-> ObjMap({<<"channel_id", "general">>, <<"message_type", "text">>,
                          <<"message", "AAAA">>}),
      shouldPass |-> FALSE,
      expectedReason |-> Str("content_too_long")],
     [name |-> "Empty channel_id",
      context |-> ObjMap({<<"channel_id", "">>, <<"message_type", "text">>}),
      shouldPass |-> FALSE,
      expectedReason |-> Str("invalid_field_value")]}

\* String.prototype.includes on the reason texts of the model
Includes(s, sub) ==
    \/ s = sub
    \/ (s = "oap.content_too_long" /\ sub = "content_too_long")

\* reasons.some(r => r.code?.includes(e) || r.message?.includes(e))
HasExpectedReason(decision, expected) ==
    IF ~Truthy(expected) THEN TRUE
    ELSE LET reasons == IF Truthy(decision) /\ Truthy(decision.reasons)
                        THEN decision.reasons.items ELSE <<>>
         IN \E i \in 1..Len(reasons) :
               \/ Includes(reasons[i].code.str, expected.str)
               \/ Includes(reasons[i].message.str, expected.str)

RunTestCaseStart ==
    /\ pc = "shell"
    /\ \E tc \in TestCases :
          /\ input' = [kind |-> "testcase", testCase |-> tc]
          /\ call' = [op |-> "verify",
                      policy |-> Str("messaging.message.send.v1"),
                      agentId |-> Str("ap_a2d10232c6534523812423eec8a1425c"),
                      context |-> tc.context]
    /\ caller' = "policy_tests"
    /\ pc' = "called"
    /\ UNCHANGED <<net, reply, outcome, report>>
    /\ UNCHANGED <<client, sdkMock, route, req, res, nextCalls, verifyLog, handlerRan, resolved, apiVars, nextVars>>

\* one iteration of the loop after verify has settled
TestCaseReportOutcome(tc, out) ==
    IF out.kind = "throw"
    THEN [exit |-> 0, label |-> "ERROR", approved |-> FALSE, passed |-> 0, failed |-> 1]
    ELSE LET decision == DecisionTopLevelFirst(out.value)
             isApproved == IsApproved(decision)
         IN IF tc.shouldPass /\ isApproved
            THEN [exit |-> 0, label |-> "PASS", approved |-> isApproved,
                  passed |-> 1, failed |-> 0]
            ELSE IF ~tc.shouldPass /\ ~isApproved
            THEN [exit |-> 0,
                  label |-> IF HasExpectedReason(decision, tc.expectedReason)
                            THEN "PASS" ELSE "PARTIAL",
                  approved |-> isApproved, passed |-> 1, failed |-> 0]
            ELSE [exit |-> 0, label |-> "FAIL", approved |-> isApproved,
                  passed |-> 0, failed |-> 1]

RunTestCaseReport ==
    /\ pc = "settled"
    /\ caller = "policy_tests"
    /\ report' = TestCaseReportOutcome(input.testCase, outcome)
    /\ pc' = "exited"
    /\ UNCHANGED <<caller, input, call, net, reply, outcome>>
    /\ UNCHANGED <<client, sdkMock, route, req, res, nextCalls, verifyLog, handlerRan, resolved, apiVars, nextVars>>

(***************************************************************************)
(* The Go hello-world program                                              *)
(***************************************************************************)
\* getEnvOrDefault
getEnvOrDefault(value, defaultValue) == IF value # "" THEN value ELSE defaultValue

GoEnvironments ==
    [kind : {"go"},
     APORT_AGENT_ID : {"", "agt_tmpl_mg8jr8l1_geckvz"},
     APORT_POLICY : {"", "data.export.v1"}]

\* main up to client.Do: the request verifyAgent sends
GoRequest(env) ==
    LET agentID == getEnvOrDefault(env.APORT_AGENT_ID, "ap_128094d3")
        policy == getEnvOrDefault(env.APORT_POLICY, "payments.refund.v1")
    IN [method |-> "POST",
        path |-> <<"api", "verify", "policy", policy>>,
        data |-> [context |-> [agent_id |-> Str(agentID),
                               policy_id |-> Str(policy),
                               context |-> ObjMap({<<"amount", 50>>,
                                                   <<"currency", "USD">>,
                                                   <<"demo", TRUE>>})]]]

GoMainSend ==
    /\ pc = "shell"
    /\ \E env \in GoEnvironments :
          /\ input' = env
          /\ net' = Append(net, GoRequest(env))
    /\ caller' = "go"
    /\ pc' = "go_awaiting"
    /\ UNCHANGED <<call, reply, outcome, report>>
    /\ UNCHANGED <<client, sdkMock, route, req, res, nextCalls, verifyLog, handlerRan, resolved, apiVars, nextVars>>

\* json.Unmarshal of a decision into *Decision: nil when missing or null
GoDecision(d) ==
    IF d.type \in {"undefined", "null"} THEN [nil |-> TRUE]
    ELSE [nil |-> FALSE,
          Allow |-> (d.allow.type = "boolean" /\ d.allow.bool),
          Reasons |-> IF d.reasons.type = "array"
                      THEN [i \in 1..Len(d.reasons.items) |-> d.reasons.items[i].message.str]
                      ELSE <<>>]

\* printVerificationResult: the decision it reports
GoSelectDecision(body) ==
    LET nested == IF body.data.type \in {"undefined", "null"} THEN [nil |-> TRUE]
                  ELSE GoDecision(body.data.decision)
        top == GoDecision(body.decision)
    IN IF ~nested.nil THEN nested
       ELSE IF ~top.nil THEN top
       ELSE [nil |-> TRUE]

\* verifyAgent after client.Do, then printVerificationResult
GoReportOutcome(r) ==
    IF r.kind = "no_response"
    THEN [exit |-> 1, error |-> "Verification failed: failed to make request"]
    ELSE IF r.status # 200
    THEN [exit |-> 1, error |-> "Verification failed: API returned status"]
    ELSE LET decision == GoSelectDecision(r.data) IN
         IF decision.nil
         THEN [exit |-> 0, verdict |-> "No decision found in response",
               approved |-> FALSE, reasons |-> <<>>]
         ELSE [exit |-> 0,
               verdict |-> IF decision.Allow THEN "ALLOWED" ELSE "DENIED",
               approved |-> decision.Allow,
               reasons |-> decision.Reasons]

GoMainReceive ==
    /\ pc = "go_awaiting"
    /\ \E r \in Replies :
          /\ reply' = r
          /\ report' = GoReportOutcome(r)
    /\ pc' = "exited"
    /\ UNCHANGED <<caller, input, call, net, outcome>>
    /\ UNCHANGED <<client, sdkMock, route, req, res, nextCalls, verifyLog, handlerRan, resolved, apiVars, nextVars>>

(***************************************************************************)
(* The programs that use the verification client                           *)
(***************************************************************************)
InitClient ==
    /\ pc = "shell"
    /\ client = "none"
    /\ sdkMock = [behaviour |-> "resolve_verified", calls |-> <<>>]
    /\ route = NoRoute
    /\ req = NoRequest
    /\ res = NoResponse
    /\ nextCalls = 0
    /\ verifyLog = <<>>
    /\ handlerRan = FALSE
    /\ resolved = [done |-> FALSE]
    /\ caller = "none"
    /\ input = [kind |-> "none"]
    /\ call = NoCall
    /\ net = <<>>
    /\ reply = [kind |-> "none"]
    /\ outcome = [kind |-> "pending"]
    /\ report = NoReport
    /\ ApiIdle
    /\ NextIdle

NextClient ==
    \/ CliVerifyStart
    \/ LibraryVerify
    \/ RunTestCaseStart
    \/ verifySend
    \/ verifySettle
    \/ CliVerifyReport
    \/ RunTestCaseReport
    \/ GoMainSend
    \/ GoMainReceive
    \/ CliPolicyStart
    \/ verifyPolicySend
    \/ verifyPolicySettle
    \/ CliPolicyReport

SpecClient == InitClient /\ [][NextClient]_vars

(***************************************************************************)
(* APortClient as an object: construction and its methods                  *)
(***************************************************************************)
\* process.env as the constructor reads it
Environments ==
    [APORT_API_KEY : {Undefined, Str("test-api-key")},
     APORT_BASE_URL : {Undefined, Str("https://staging.aport.io")}]

\* the options argument of new APortClient(options)
ConstructorOptions ==
    [apiKey : {Undefined, Str(""), Str("custom-key")},
     baseUrl : {Undefined, Str("https://custom.api.com")}]

\* timeout given to axios.create, in milliseconds
TimeoutMs == 10000

\* the headers object given to axios.create
ClientHeaders(apiKey) ==
    (IF Truthy(apiKey) THEN {<<"Authorization", "Bearer " \o apiKey.str>>} ELSE {})
    \cup {<<"Content-Type", "application/json">>}

\* constructor(options = {})
NewAPortClient(options, e) ==
    LET apiKey == OrElse(options.apiKey, e.APORT_API_KEY)
        baseUrl == OrElse(options.baseUrl, OrElse(e.APORT_BASE_URL, Str("https://aport.io")))
    IN [kind |-> "client",
        apiKey |-> apiKey,
        baseUrl |-> baseUrl,
        client |-> [baseURL |-> baseUrl,
                    headers |-> ClientHeaders(apiKey),
                    timeout |-> TimeoutMs]]

\* a request as the axios instance puts it on the wire: the instance's
\* defaults merged with the request of the call
Transmit(cfg, request) ==
    [baseURL |-> cfg.client.baseURL,
     headers |-> cfg.client.headers,
     timeout |-> cfg.client.timeout,
     request |-> request]

Methods ==
    {"verify", "verifyPolicy", "createPassport", "getPassport",
     "suspendPassport", "getPolicyPack", "listPolicyPacks"}

VerifyArguments ==
    {<<Str("payments.refund.v1"), Str("agt_1"), ObjMap({})>>,
     <<Str("data.export.v1"), Str("agt_2"), ObjMap({<<"amount", 100>>})>>}

\* argument lists the methods are called with
MethodArguments(op) ==
    CASE op \in {"verify", "verifyPolicy"} -> VerifyArguments
      [] op = "createPassport" ->
            {<<ObjMap({<<"name", "Test Agent">>, <<"role", "Test Role">>})>>}
      [] op = "getPassport" -> {<<Str("agt_inst_test_123")>>}
      [] op = "suspendPassport" ->
            {<<Str("agt_inst_test_123"), Undefined>>,
             <<Str("agt_inst_test_123"), Str("Test suspension")>>}
      [] op = "getPolicyPack" -> {<<Str("payments.refund.v1")>>}
      [] OTHER -> {<<>>}

CreatePassportRequest(passportData) ==
    [method |-> "POST", path |-> <<"api", "issue">>, data |-> passportData]

\* the verification probe of getPassport
PassportProbeRequest(agentId) ==
    [method |-> "GET",
     path |-> <<"api", "verify", JsToString(agentId)>>,
     params |-> [policy_pack |-> "code.repository.merge.v1", context |-> "{}"]]

\* the direct lookup of getPassport
PassportLookupRequest(agentId) ==
    [method |-> "GET", path |-> <<"api", "passports", JsToString(agentId)>>]

SuspendRequest(agentId, reason) ==
    [method |-> "POST",
     path |-> <<"api", "suspend">>,
     data |-> [agent_id |-> agentId,
               reason |-> IF reason = Undefined THEN Str("Suspended via CLI") ELSE reason]]

PolicyPackRequest(policyId) ==
    [method |-> "GET", path |-> <<"api", "policies", JsToString(policyId)>>]

ListPolicyPacksRequest == [method |-> "GET", path |-> <<"api", "policies">>]

\* bodies of a 200 answer to the client's methods: a passport, a decision, an
\* object with neither, or the JSON literal null
ApiBodies ==
    {[type |-> "object", agent_id |-> Str("agt_inst_test_123"), name |-> Str("Test Agent"),
      decision |-> Undefined],
     [type |-> "object", agent_id |-> Undefined, name |-> Undefined,
      decision |-> [type |-> "object", allow |-> Bool(TRUE)]],
     [type |-> "object", agent_id |-> Undefined, name |-> Undefined,
      decision |-> [type |-> "object", allow |-> Bool(FALSE)]],
     [type |-> "object", agent_id |-> Undefined, name |-> Undefined, decision |-> Undefined],
     Null}

ApiReplies ==
    [kind : {"response"}, status : {200}, data : ApiBodies]
    \cup [kind : {"response"}, status : {403, 500},
          data : [type : {"object"}, message : {Undefined, Str("Agent not found")}]]
    \cup [kind : {"no_response"}, message : TransportFailures]

\* await this.client.get / post: the call hands one request to the transport
AwaitRequest(request) == [kind |-> "send", request |-> request]

\* variant: createPassport does not look at the credential
MethodStart_NoKeyCheck(cfg, op, args) ==
    CASE op \in {"verify", "verifyPolicy"} ->
            AwaitRequest(VerifyRequest(args[1], args[2], args[3]))
      [] op = "createPassport" -> AwaitRequest(CreatePassportRequest(args[1]))
      [] op = "getPassport" -> AwaitRequest(PassportProbeRequest(args[1]))
      [] op = "suspendPassport" -> AwaitRequest(SuspendRequest(args[1], args[2]))
      [] op = "getPolicyPack" -> AwaitRequest(PolicyPackRequest(args[1]))
      [] OTHER -> AwaitRequest(ListPolicyPacksRequest)

\* a method from its call to its first await (or to the throw before it)
MethodStart(cfg, op, args) ==
    CASE op \in {"verify", "verifyPolicy"} ->
            AwaitRequest(VerifyRequest(args[1], args[2], args[3]))
      [] op = "createPassport" ->
            IF ~Truthy(cfg.apiKey)
            THEN ThrowError("API key required for passport creation. Set APORT_API_KEY environment variable or use --api-key option.")
            ELSE AwaitRequest(CreatePassportRequest(args[1]))
      [] op = "getPassport" -> AwaitRequest(PassportProbeRequest(args[1]))
      [] op = "suspendPassport" -> AwaitRequest(SuspendRequest(args[1], args[2]))
      [] op = "getPolicyPack" -> AwaitRequest(PolicyPackRequest(args[1]))
      [] OTHER -> AwaitRequest(ListPolicyPacksRequest)

\* getPassport after the probe has settled
GetPassportAfterProbe(cfg, agentId, r) ==
    IF r.kind = "response" /\ r.status = 200
    THEN IF Truthy(r.data) /\ Truthy(r.data.agent_id)
         THEN [kind |-> "return", value |-> r.data]
         ELSE ThrowError("Unable to retrieve passport information")
    ELSE IF ~Truthy(cfg.apiKey)
    THEN ThrowError("API key required for passport retrieval. Set APORT_API_KEY environment variable or use --api-key option.")
    ELSE AwaitRequest(PassportLookupRequest(agentId))

\* variant: a request that failed is sent once more before giving up
MethodResume_RetryOnFailure(cfg, op, args, sent, r) ==
    IF op = "getPassport" /\ Len(sent) = 1
    THEN GetPassportAfterProbe(cfg, args[1], r)
    ELSE IF Len(sent) = 1 /\ ~(r.kind = "response" /\ r.status = 200)
    THEN AwaitRequest(sent[1].request)
    ELSE VerifyOutcome(r)

\* a method from the settling of the request it awaits to its next await, its
\* return or its throw; sent holds the requests it has issued so far
MethodResume(cfg, op, args, sent, r) ==
    IF op = "getPassport" /\ Len(sent) = 1
    THEN GetPassportAfterProbe(cfg, args[1], r)
    ELSE VerifyOutcome(r)

\* the state of one method call
IdleCall ==
    [op |-> "none", args |-> <<>>, state |-> "idle", sent |-> <<>>, replies |-> <<>>,
     outcome |-> [kind |-> "pending"]]

\* one step of a call: it issues a request and waits, or it is done
Proceed(cfg, c, step) ==
    IF step.kind = "send"
    THEN [c EXCEPT !.state = "awaiting",
                   !.sent = Append(c.sent, Transmit(cfg, step.request))]
    ELSE [c EXCEPT !.state = "done", !.outcome = step]

\* variant: an answer is handed to the first call still waiting, whichever
\* call's request it answers
Deliver_ToFirstWaiting(cs, cfg, i, r) ==
    LET j == CHOOSE k \in DOMAIN cs :
                /\ cs[k].state = "awaiting"
                /\ \A l \in DOMAIN cs : cs[l].state = "awaiting" => k <= l
    IN [cs EXCEPT ![j] = Proceed(cfg, cs[j],
                                 MethodResume(cfg, cs[j].op, cs[j].args, cs[j].sent, r))]

\* the answer to call i's request resolves (or rejects) the promise call i awaits
Deliver(cs, cfg, i, r) ==
    [cs EXCEPT ![i] = Proceed(cfg, cs[i],
                              MethodResume(cfg, cs[i].op, cs[i].args, cs[i].sent, r))]

InitApi ==
    /\ pc = "api_start"
    /\ client = "none"
    /\ sdkMock = [behaviour |-> "resolve_verified", calls |-> <<>>]
    /\ route = NoRoute
    /\ req = NoRequest
    /\ res = NoResponse
    /\ nextCalls = 0
    /\ verifyLog = <<>>
    /\ handlerRan = FALSE
    /\ resolved = [done |-> FALSE]
    /\ ClientIdle
    /\ ApiIdle
    /\ NextIdle

\* new APortClient(options)
constructClient ==
    /\ pc = "api_start"
    /\ \E e \in Environments, o \in ConstructorOptions :
          /\ processEnv' = e
          /\ ctorOptions' = o
          /\ config' = NewAPortClient(o, e)
    /\ pc' = "api_ready"
    /\ UNCHANGED <<calls, clientVars>>
    /\ UNCHANGED <<client, sdkMock, route, req, res, nextCalls, verifyLog, handlerRan, resolved, nextVars>>

\* call i invokes one of the methods in ops
StartCall(i, ops) ==
    /\ pc = "api_ready"
    /\ calls[i].state = "idle"
    /\ \E op \in ops :
          \E args \in MethodArguments(op) :
             calls' = [calls EXCEPT ![i] =
                          Proceed(config,
                                  [IdleCall EXCEPT !.op = op, !.args = args],
                                  MethodStart(config, op, args))]
    /\ UNCHANGED <<pc, processEnv, ctorOptions, config, clientVars>>
    /\ UNCHANGED <<client, sdkMock, route, req, res, nextCalls, verifyLog, handlerRan, resolved, nextVars>>

\* the request call i awaits settles: the transport answers it (replies) and
\* the call runs on from its await
SettleCall(i) ==
    /\ pc = "api_ready"
    /\ calls[i].state = "awaiting"
    /\ \E r \in ApiReplies :
          calls' = Deliver([calls EXCEPT ![i].replies = Append(@, r)], config, i, r)
    /\ UNCHANGED <<pc, processEnv, ctorOptions, config, clientVars>>
    /\ UNCHANGED <<client, sdkMock, route, req, res, nextCalls, verifyLog, handlerRan, resolved, nextVars>>

\* a program making one call of any method
ApiCall == StartCall(1, Methods)

ApiSettle == SettleCall(1)

NextApi ==
    \/ constructClient
    \/ ApiCall
    \/ ApiSettle

SpecApi == InitApi /\ [][NextApi]_vars

\* callers sharing one client and verifying in parallel
ConcurrentVerify == \E i \in 1..NumCalls : StartCall(i, {"verify"})

ConcurrentSettle == \E i \in 1..NumCalls : SettleCall(i)

NextConcurrent ==
    \/ constructClient
    \/ ConcurrentVerify
    \/ ConcurrentSettle

SpecConcurrent == InitApi /\ [][NextConcurrent]_vars

(***************************************************************************)
(* Timeouts: what the transport guarantees about a request in flight       *)
(***************************************************************************)
\* Timeout of the Go program's &http.Client{}: the zero value, no timeout
GoClientTimeout == 0

\* axios gives up on the POST of verify or verifyPolicy once the instance's
\* timeout has passed
verifyTimeout ==
    /\ pc = "awaiting"
    /\ call.op \in {"verify", "verifyPolicy"}
    /\ TimeoutMs > 0
    /\ reply' = [kind |-> "no_response", message |-> "timeout of 10000ms exceeded"]
    /\ outcome' = IF call.op = "verify"
                  THEN VerifyOutcome([kind |-> "no_response",
                                      message |-> "timeout of 10000ms exceeded"])
                  ELSE VerifyPolicyOutcome([kind |-> "no_response",
                                            message |-> "timeout of 10000ms exceeded"])
    /\ pc' = "settled"
    /\ UNCHANGED <<caller, input, call, net, report>>
    /\ UNCHANGED <<client, sdkMock, route, req, res, nextCalls, verifyLog, handlerRan, resolved, apiVars, nextVars>>

\* client.Do gives up once the http.Client's Timeout has passed, if it has one
GoTimeout ==
    /\ pc = "go_awaiting"
    /\ GoClientTimeout > 0
    /\ reply' = [kind |-> "no_response", message |-> "Network Error"]
    /\ report' = GoReportOutcome([kind |-> "no_response", message |-> "Network Error"])
    /\ pc' = "exited"
    /\ UNCHANGED <<caller, input, call, net, outcome>>
    /\ UNCHANGED <<client, sdkMock, route, req, res, nextCalls, verifyLog, handlerRan, resolved, apiVars, nextVars>>

\* the programs using the client, where the service may stay silent for ever
\* and only a timeout that was set is sure to fire
SpecClientLive ==
    /\ InitClient
    /\ [][NextClient]_vars
    /\ WF_vars(verifyTimeout)
    /\ WF_vars(GoTimeout)

(***************************************************************************)
(* The Next.js application: middleware.ts                                  *)
(***************************************************************************)
\* s.startsWith(prefix)
StartsWith(s, prefix) == Len(s) >= Len(prefix) /\ SubSeq(s, 1, Len(prefix)) = prefix

\* s.endsWith(suffix)
EndsWith(s, suffix) ==
    Len(s) >= Len(suffix) /\ SubSeq(s, Len(s) - Len(suffix) + 1, Len(s)) = suffix

\* pathnames requested from the application
NextPaths ==
    {"/", "/dashboard", "/logo.png", "/favicon.ico",
     "/_next/static/app.js", "/_next/data/build/index.json",
     "/api/public/health", "/api/publicity",
     "/api/admin/dashboard", "/api/administrators",
     "/api/payments/refund", "/api/payments/refunds",
     "/api/payments/transfer", "/api/payments", "/api/orders"}

ImageSuffixes == {".svg", ".png", ".jpg", ".jpeg", ".gif", ".webp"}

\* config.matcher: the paths the framework runs the middleware on
MatcherMatches(path) ==
    /\ StartsWith(path, "/")
    /\ ~StartsWith(path, "/_next/static")
    /\ ~StartsWith(path, "/_next/image")
    /\ ~StartsWith(path, "/favicon.ico")
    /\ \A x \in ImageSuffixes : ~EndsWith(path, x)

\* process.env, globalThis.NODE_ENV and node_modules of a deployment
NextEnvironments ==
    [NODE_ENV : {Undefined, Str("development"), Str("production")},
     APORT_API_KEY : {Undefined, Str("aport_live_key")},
     sdkInstalled : BOOLEAN,
     globalNODE_ENV : {Undefined, Str("development")}]

\* const aportClient = APortClient ? new APortClient({...}) : undefined
aportClient(e) == IF e.sdkInstalled THEN "APortClient" ELSE "undefined"

\* const client = NODE_ENV === 'production' ? aportClient : new MockAPortClient()
ModuleClient(e) ==
    IF e.NODE_ENV = Str("production") THEN aportClient(e) ELSE "MockAPortClient"

\* a passport object
Passport(agentId, limits, policy) ==
    [type |-> "object",
     agent_id |-> agentId,
     capabilities |-> <<"payments.refund", "payments.transfer">>,
     limits |-> limits,
     metadata |-> [verified_at |-> "2025-01-01T00:00:00.000Z", policy |-> policy]]

Limits(refund, transfer) ==
    [type |-> "object",
     refund_amount_max_per_tx |-> Num(refund),
     transfer_amount_max_per_tx |-> Num(transfer)]

\* MockAPortClient.verify(policy, agentId, context)
NextMockVerify(policy, agentId) ==
    IF agentId = "test-agent-123"
    THEN [kind |-> "return",
          value |-> [verified |-> Bool(TRUE),
                     passport |-> Passport(agentId, Limits(1000, 5000), policy),
                     message |-> Str("Agent verified successfully"),
                     details |-> Undefined]]
    ELSE [kind |-> "return",
          value |-> [verified |-> Bool(FALSE),
                     passport |-> Undefined,
                     message |-> Str("Agent verification failed"),
                     details |-> ObjMap({<<"error", "Invalid agent ID">>})]]

\* how verify of the SDK's APortClient may settle: an APortVerificationResult
\* (verified, passport?, message, details?) or a rejection
SdkVerifyOutcomes(policy, agentId) ==
    {[kind |-> "return",
      value |-> [verified |-> Bool(TRUE),
                 passport |-> Passport(agentId, Limits(100, 200), policy),
                 message |-> Str("ok"), details |-> Undefined]],
     [kind |-> "return",
      value |-> [verified |-> Bool(TRUE), passport |-> Undefined,
                 message |-> Str("ok"), details |-> Undefined]],
     [kind |-> "return",
      value |-> [verified |-> Bool(FALSE), passport |-> Undefined,
                 message |-> Str("Agent suspended"), details |-> Undefined]],
     [kind |-> "return",
      value |-> [verified |-> Bool(FALSE), passport |-> Undefined,
                 message |-> Undefined, details |-> Undefined]],
     [kind |-> "throw", message |-> "Network Error"]}

\* client.verify(...) on the object the module chose; on undefined the call
\* itself raises a TypeError
NextClientVerify(c, policy, agentId) ==
    CASE c = "MockAPortClient" -> {NextMockVerify(policy, agentId)}
      [] c = "APortClient" -> SdkVerifyOutcomes(policy, agentId)
      [] OTHER -> {[kind |-> "throw",
                    message |-> "Cannot read properties of undefined (reading 'verify')"]}

\* Buffer.from(JSON.stringify(passport)).toString('base64')
EncodePassport(passport) == "base64:" \o ToString(passport)

\* passports whose encoding a caller may hold: the mock's for each policy, one
\* from the service, and one the caller made up
KnownPassports ==
    {Passport("test-agent-123", Limits(1000, 5000), p) :
        p \in {"default.access.v1", "admin.access.v1",
               "payments.refund.v1", "payments.transfer.v1"}}
    \cup {Passport("test-agent-123", Limits(100, 200), "payments.refund.v1"),
          Passport("agt_forged", Limits(1000000, 1000000), "payments.refund.v1"),
          Passport("agt_forged", Undefined, "payments.refund.v1")}

\* JSON.parse(Buffer.from(data, 'base64').toString()): the passport that was
\* encoded, or a SyntaxError when the text is not the encoding of JSON
DecodePassport(data) ==
    IF \E p \in KnownPassports : EncodePassport(p) = data
    THEN [ok |-> TRUE, value |-> CHOOSE p \in KnownPassports : EncodePassport(p) = data]
    ELSE [ok |-> FALSE]

\* request bodies: text that is not JSON, or an object with the fields read
InvalidBody == [type |-> "invalid"]

RefundBodies ==
    {InvalidBody}
    \cup [type : {"object"},
          amount : {Undefined, Num(0), Num(-5), Num(500), Num(2000), Str("abc")},
          to_account : {Undefined}]

TransferBodies ==
    {InvalidBody}
    \cup [type : {"object"},
          amount : {Undefined, Num(500), Num(6000)},
          to_account : {Undefined, Str("account_123")}]

\* the x-aport-* headers as a caller may send them itself
CallerAportHeaders ==
    [xAportVerified : {Null, Str("true"), Str("yes")},
     xAportPassport : {Null,
                       Str("not-a-passport"),
                       Str(EncodePassport(Passport("test-agent-123", Limits(1000, 5000),
                                                   "payments.refund.v1"))),
                       Str(EncodePassport(Passport("agt_forged",
                                                   Limits(1000000, 1000000),
                                                   "payments.refund.v1")))}]

\* requests: the agent-ID carriers vary on every path, the x-aport-* headers
\* and the body on the paths whose handlers read them
NextRequests ==
    {[path |-> p,
      headers |-> [xAgentId |-> a, xAportAgentId |-> b,
                   xAportVerified |-> h.xAportVerified,
                   xAportPassport |-> h.xAportPassport],
      query |-> [agent_id |-> q],
      body |-> d] :
        p \in {"/api/payments/refund"},
        a \in {Null, Str(""), Str("test-agent-123")},
        b \in {Null, Str("agt_1")},
        q \in {Null, Str("test-agent-123")},
        h \in CallerAportHeaders,
        d \in RefundBodies}
    \cup
    {[path |-> p,
      headers |-> [xAgentId |-> a, xAportAgentId |-> b,
                   xAportVerified |-> h.xAportVerified,
                   xAportPassport |-> h.xAportPassport],
      query |-> [agent_id |-> q],
      body |-> d] :
        p \in {"/api/payments/transfer"},
        a \in {Null, Str(""), Str("test-agent-123")},
        b \in {Null, Str("agt_1")},
        q \in {Null, Str("test-agent-123")},
        h \in CallerAportHeaders,
        d \in TransferBodies}
    \cup
    {[path |-> p,
      headers |-> [xAgentId |-> a, xAportAgentId |-> b,
                   xAportVerified |-> h.xAportVerified,
                   xAportPassport |-> h.xAportPassport],
      query |-> [agent_id |-> q],
      body |-> d] :
        p \in {"/api/admin/dashboard"},
        a \in {Null, Str(""), Str("test-agent-123")},
        b \in {Null, Str("agt_1")},
        q \in {Null, Str("test-agent-123")},
        h \in CallerAportHeaders,
        d \in {Undefined}}
    \cup
    {[path |-> p,
      headers |-> [xAgentId |-> a, xAportAgentId |-> b,
                   xAportVerified |-> Null,
                   xAportPassport |-> Null],
      query |-> [agent_id |-> q],
      body |-> d] :
        p \in NextPaths \ {"/api/payments/refund", "/api/payments/transfer",
                           "/api/admin/dashboard"},
        a \in {Null, Str(""), Str("test-agent-123")},
        b \in {Null, Str("agt_1")},
        q \in {Null, Str("test-agent-123")},
        d \in {Undefined}}

\* the first if of middleware(): paths that skip verification
SkipsVerification_AnyApi(path) ==
    \/ StartsWith(path, "/_next")
    \/ StartsWith(path, "/favicon.ico")
    \/ path = "/"
    \/ StartsWith(path, "/api")

SkipsVerification(path) ==
    \/ StartsWith(path, "/_next")
    \/ StartsWith(path, "/favicon.ico")
    \/ path = "/"
    \/ StartsWith(path, "/api/public")

\* x-agent-id || x-aport-agent-id || searchParams.get('agent_id')
NextAgentId(r) ==
    OrElse(OrElse(r.headers.xAgentId, r.headers.xAportAgentId), r.query.agent_id)

\* variant: the policy is chosen by exact path
RoutePolicy_ExactPath(path) ==
    IF path = "/api/admin" THEN "admin.access.v1"
    ELSE IF path = "/api/payments/refund" THEN "payments.refund.v1"
    ELSE IF path = "/api/payments/transfer" THEN "payments.transfer.v1"
    ELSE "default.access.v1"

\* "Determine policy based on route"
RoutePolicy(path) ==
    IF StartsWith(path, "/api/admin") THEN "admin.access.v1"
    ELSE IF StartsWith(path, "/api/payments/refund") THEN "payments.refund.v1"
    ELSE IF StartsWith(path, "/api/payments/transfer") THEN "payments.transfer.v1"
    ELSE "default.access.v1"

\* the isDev test of the catch block
isDev(e) == e.NODE_ENV = Str("development") \/ e.globalNODE_ENV = Str("development")

NoAportHeaders ==
    [xAportVerified |-> Null, xAportAgentId |-> Null,
     xAportPolicy |-> Null, xAportPassport |-> Null]

\* NextResponse.next() with the headers set on it
ResponseNext(headers) == [kind |-> "next", headers |-> headers]

\* NextResponse.json(body, {status})
ResponseJson(status, body) == [kind |-> "json", status |-> status, body |-> body]

\* variant: an error of verification lets the request through in every mode
AfterNextVerify_FailOpen(e, policy, agentId, out) ==
    IF out.kind = "throw"
    THEN ResponseNext(NoAportHeaders)
    ELSE IF ~Truthy(out.value.verified)
    THEN ResponseJson(403, [error |-> "Verification failed",
                            message |-> IF Truthy(out.value.message)
                                        THEN out.value.message.str
                                        ELSE "Agent verification failed",
                            details |-> out.value.details])
    ELSE ResponseNext([xAportVerified |-> Str("true"),
                       xAportAgentId |-> Str(agentId),
                       xAportPolicy |-> Str(policy),
                       xAportPassport |-> IF Truthy(out.value.passport)
                                          THEN Str(EncodePassport(out.value.passport))
                                          ELSE Null])

\* the try block once client.verify has settled as `out`
AfterNextVerify(e, policy, agentId, out) ==
    IF out.kind = "throw"
    THEN IF isDev(e)
         THEN ResponseNext(NoAportHeaders)
         ELSE ResponseJson(500, [error |-> "Verification error",
                                 message |-> "Internal verification error",
                                 details |-> Undefined])
    ELSE IF ~Truthy(out.value.verified)
    THEN ResponseJson(403, [error |-> "Verification failed",
                            message |-> IF Truthy(out.value.message)
                                        THEN out.value.message.str
                                        ELSE "Agent verification failed",
                            details |-> out.value.details])
    ELSE ResponseNext([xAportVerified |-> Str("true"),
                       xAportAgentId |-> Str(agentId),
                       xAportPolicy |-> Str(policy),
                       xAportPassport |-> IF Truthy(out.value.passport)
                                          THEN Str(EncodePassport(out.value.passport))
                                          ELSE Null])

\* one run of middleware(request): the response it returns and the calls it
\* made to client.verify, `out` being how such a call settles
middlewareOutcome(e, c, r, out) ==
    IF SkipsVerification(r.path)
    THEN [response |-> ResponseNext(NoAportHeaders), calls |-> <<>>]
    ELSE IF ~Truthy(NextAgentId(r))
    THEN [response |->
              ResponseJson(400, [error |-> "Agent ID required",
                                 message |-> "Please provide agent ID in X-Agent-ID header or agent_id query parameter",
                                 details |-> Undefined]),
          calls |-> <<>>]
    ELSE [response |-> AfterNextVerify(e, RoutePolicy(r.path), NextAgentId(r).str, out),
          calls |-> IF c = "undefined"
                    THEN <<>>
                    ELSE << [policy |-> RoutePolicy(r.path),
                             agentId |-> NextAgentId(r).str,
                             outcome |-> out] >>]

(***************************************************************************)
(* The Next.js application: route handlers                                 *)
(***************************************************************************)
\* ToNumber(v) in a comparison: NaN for undefined and for text that is no number
ToNumber(v) ==
    CASE v.type = "number" -> [nan |-> FALSE, n |-> v.num]
      [] v.type = "null" -> [nan |-> FALSE, n |-> 0]
      [] OTHER -> [nan |-> TRUE, n |-> 0]

\* a <= b: false when either side is NaN
JsLessEq(a, b) == ~ToNumber(a).nan /\ ~ToNumber(b).nan /\ ToNumber(a).n <= ToNumber(b).n

\* a > b: false when either side is NaN
JsGreater(a, b) == ~ToNumber(a).nan /\ ~ToNumber(b).nan /\ ToNumber(a).n > ToNumber(b).n

\* passport?.limits
PassportLimits(passport) ==
    IF passport.type = "object" THEN passport.limits ELSE Undefined

\* passport?.limits?.[name]
PassportLimit(passport, name) ==
    IF PassportLimits(passport).type = "object"
    THEN PassportLimits(passport)[name]
    ELSE Undefined

\* passportData ? JSON.parse(Buffer.from(passportData, 'base64').toString()) : null
ParsePassport(passportData) ==
    IF Truthy(passportData)
    THEN DecodePassport(passportData.str)
    ELSE [ok |-> TRUE, value |-> Null]

\* the response a caller receives: status and the fields of the JSON body
Served(status, success, error, message, agentId, amount, limits, headers) ==
    [status |-> status, success |-> success, error |-> error, message |-> message,
     agent_id |-> agentId, amount |-> amount, limits |-> limits, headers |-> headers]

\* NextResponse.json({error}, {status}) of a route handler
RouteError(status, error) ==
    Served(status, FALSE, error, "", Null, Undefined, Null, NoAportHeaders)

\* POST of app/api/payments/refund/route.ts
RefundPOST(r) ==
    IF ~Truthy(r.headers.xAportVerified) \/ r.headers.xAportVerified # Str("true")
    THEN RouteError(401, "Agent verification required")
    ELSE IF r.body.type = "invalid"
    THEN RouteError(500, "Internal server error")
    ELSE IF ~Truthy(r.body.amount) \/ JsLessEq(r.body.amount, Num(0))
    THEN RouteError(400, "Valid amount is required")
    ELSE IF ~ParsePassport(r.headers.xAportPassport).ok
    THEN RouteError(500, "Invalid passport data")
    ELSE LET passport == ParsePassport(r.headers.xAportPassport).value
             limit == PassportLimit(passport, "refund_amount_max_per_tx")
         IN IF Truthy(limit) /\ JsGreater(r.body.amount, limit)
            THEN Served(403, FALSE, "Amount exceeds limit", "", Null, r.body.amount,
                        Null, NoAportHeaders)
            ELSE Served(200, TRUE, "", "", r.headers.xAportAgentId, r.body.amount,
                        OrElse(PassportLimits(passport), Null), NoAportHeaders)

\* POST of app/api/payments/transfer/route.ts
TransferPOST(r) ==
    IF ~Truthy(r.headers.xAportVerified) \/ r.headers.xAportVerified # Str("true")
    THEN RouteError(401, "Agent verification required")
    ELSE IF r.body.type = "invalid"
    THEN RouteError(500, "Internal server error")
    ELSE IF ~Truthy(r.body.amount) \/ JsLessEq(r.body.amount, Num(0))
    THEN RouteError(400, "Valid amount is required")
    ELSE IF ~Truthy(r.body.to_account)
    THEN RouteError(400, "Destination account is required")
    ELSE IF ~ParsePassport(r.headers.xAportPassport).ok
    THEN RouteError(500, "Invalid passport data")
    ELSE LET passport == ParsePassport(r.headers.xAportPassport).value
             limit == PassportLimit(passport, "transfer_amount_max_per_tx")
         IN IF Truthy(limit) /\ JsGreater(r.body.amount, limit)
            THEN Served(403, FALSE, "Amount exceeds limit", "", Null, r.body.amount,
                        Null, NoAportHeaders)
            ELSE Served(200, TRUE, "", "", r.headers.xAportAgentId, r.body.amount,
                        OrElse(PassportLimits(passport), Null), NoAportHeaders)

\* GET of app/api/admin/dashboard/route.ts
DashboardGET(r) ==
    IF ~Truthy(r.headers.xAportVerified) \/ r.headers.xAportVerified # Str("true")
    THEN RouteError(401, "Agent verification required")
    ELSE IF ~ParsePassport(r.headers.xAportPassport).ok
    THEN RouteError(500, "Invalid passport data")
    ELSE Served(200, TRUE, "", "", r.headers.xAportAgentId, Undefined,
                OrElse(PassportLimits(ParsePassport(r.headers.xAportPassport).value),
                       ObjMap({})),
                NoAportHeaders)

\* paths served by a route handler that reads the x-aport-* request headers
GuardedRoutes == {"/api/payments/refund", "/api/payments/transfer", "/api/admin/dashboard"}

\* pages, assets and endpoints that exist and need no verification data
OpenRoutes ==
    {"/", "/logo.png", "/favicon.ico", "/_next/static/app.js",
     "/_next/data/build/index.json", "/api/public/health"}

(***************************************************************************)
(* The Next.js application: serving a request                              *)
(***************************************************************************)
InitNext ==
    /\ pc = "next_load"
    /\ client = "none"
    /\ sdkMock = [behaviour |-> "resolve_verified", calls |-> <<>>]
    /\ route = NoRoute
    /\ req = NoRequest
    /\ res = NoResponse
    /\ nextCalls = 0
    /\ verifyLog = <<>>
    /\ handlerRan = FALSE
    /\ resolved = [done |-> FALSE]
    /\ ClientIdle
    /\ ApiIdle
    /\ nextEnv \in NextEnvironments
    /\ nextClient = "none"
    /\ nextRequest = NoNextRequest
    /\ nextResponse = NoNextResponse
    /\ nextVerifyLog = <<>>
    /\ served = NotServed

\* the server loads middleware.ts: its module-level statements run once
LoadMiddlewareModule ==
    /\ pc = "next_load"
    /\ nextClient' = ModuleClient(nextEnv)
    /\ pc' = "next_ready"
    /\ UNCHANGED <<nextEnv, nextRequest, nextResponse, nextVerifyLog, served>>
    /\ UNCHANGED <<client, sdkMock, route, req, res, nextCalls, verifyLog, handlerRan, resolved, clientVars, apiVars>>

\* a request arrives; the matcher decides whether the middleware runs on it
NextReceive ==
    /\ pc = "next_ready"
    /\ \E r \in NextRequests :
          /\ nextRequest' = r
          /\ pc' = IF MatcherMatches(r.path) THEN "next_middleware" ELSE "next_route"
    /\ UNCHANGED <<nextEnv, nextClient, nextResponse, nextVerifyLog, served>>
    /\ UNCHANGED <<client, sdkMock, route, req, res, nextCalls, verifyLog, handlerRan, resolved, clientVars, apiVars>>

\* middleware(request): a JSON response ends the request, NextResponse.next()
\* hands it on to the route
middleware ==
    /\ pc = "next_middleware"
    /\ \E out \in NextClientVerify(nextClient, RoutePolicy(nextRequest.path),
                                  IF Truthy(NextAgentId(nextRequest))
                                  THEN NextAgentId(nextRequest).str ELSE "") :
          LET o == middlewareOutcome(nextEnv, nextClient, nextRequest, out) IN
          /\ nextResponse' = o.response
          /\ nextVerifyLog' = nextVerifyLog \o o.calls
          /\ IF o.response.kind = "json"
             THEN /\ served' = Served(o.response.status, FALSE, o.response.body.error,
                                      o.response.body.message, Null, Undefined, Null,
                                      NoAportHeaders)
                  /\ pc' = "next_served"
             ELSE /\ served' = served
                  /\ pc' = "next_route"
    /\ UNCHANGED <<nextEnv, nextClient, nextRequest>>
    /\ UNCHANGED <<client, sdkMock, route, req, res, nextCalls, verifyLog, handlerRan, resolved, clientVars, apiVars>>

\* headers NextResponse.next() carries: they are added to the response that
\* goes back to the caller
ResponseHeaders(response) ==
    IF response.kind = "next" THEN response.headers ELSE NoAportHeaders

\* the handler the framework's router selects for a guarded path
RouteOutcome(r) ==
    CASE r.path = "/api/payments/refund" -> RefundPOST(r)
      [] r.path = "/api/payments/transfer" -> TransferPOST(r)
      [] OTHER -> DashboardGET(r)

\* the framework calls the route's handler with the request as the caller sent it
RouteHandler ==
    /\ pc = "next_route"
    /\ nextRequest.path \in GuardedRoutes
    /\ served' = [RouteOutcome(nextRequest)
                  EXCEPT !.headers = ResponseHeaders(nextResponse)]
    /\ pc' = "next_served"
    /\ UNCHANGED <<nextEnv, nextClient, nextRequest, nextResponse, nextVerifyLog>>
    /\ UNCHANGED <<client, sdkMock, route, req, res, nextCalls, verifyLog, handlerRan, resolved, clientVars, apiVars>>

\* pages, assets and the health check, or 404 where the application has no route
ServeOpenRoute ==
    /\ pc = "next_route"
    /\ nextRequest.path \notin GuardedRoutes
    /\ served' = Served(IF nextRequest.path \in OpenRoutes THEN 200 ELSE 404,
                        FALSE, "", "", Null, Undefined, Null,
                        ResponseHeaders(nextResponse))
    /\ pc' = "next_served"
    /\ UNCHANGED <<nextEnv, nextClient, nextRequest, nextResponse, nextVerifyLog>>
    /\ UNCHANGED <<client, sdkMock, route, req, res, nextCalls, verifyLog, handlerRan, resolved, clientVars, apiVars>>

NextNext ==
    \/ LoadMiddlewareModule
    \/ NextReceive
    \/ middleware
    \/ RouteHandler
    \/ ServeOpenRoute

SpecNext == InitNext /\ [][NextNext]_vars

(***************************************************************************)
(* Properties of the agent-ID resolver and of the Express middleware       *)
(***************************************************************************)
\* a usable agent ID: a non-empty string
Qualifies(v) == v.type = "string" /\ v.str # ""

\* the middleware has finished with the request
MiddlewareDone == pc \in {"handler", "responded"}

\* no source of the request, nor the static option, carries a usable agent ID
NoAgentIdAnywhere ==
    /\ ~Qualifies(req.headers.xAgentId)
    /\ ~Qualifies(req.headers.xAportAgentId)
    /\ ~Qualifies(req.query.agent_id)
    /\ ~Qualifies(req.body.agent_id)
    /\ ~Qualifies(req.body.agentId)
    /\ ~Qualifies(route.options.agentId)

\* the agent ID the documented priority order selects for the request
PriorityAgentId ==
    IF Qualifies(req.headers.xAgentId) THEN req.headers.xAgentId
    ELSE IF Qualifies(req.headers.xAportAgentId) THEN req.headers.xAportAgentId
    ELSE IF Qualifies(req.query.agent_id) THEN req.query.agent_id
    ELSE IF Qualifies(req.body.agent_id) THEN req.body.agent_id
    ELSE IF Qualifies(req.body.agentId) THEN req.body.agentId
    ELSE IF Qualifies(route.options.agentId) THEN route.options.agentId
    ELSE Null

C3_Unverified403 ==
    (/\ MiddlewareDone
     /\ ~NoAgentIdAnywhere
     /\ sdkMock.behaviour \in {"resolve_unverified", "resolve_unverified_nomsg"}) =>
        /\ res.status = 403
        /\ res.error = "Verification failed"
        /\ res.message = (IF sdkMock.behaviour = "resolve_unverified"
                          THEN "Agent not authorized"
                          ELSE "Agent verification failed")
        /\ nextCalls = 0
        /\ ~handlerRan
        /\ req.aport = Undefined

\* C4 (as stated): when verification raises an error the outcome depends only on
\* strict: unless strict is exactly false the middleware responds 500
\* "Verification error" and does not call next(); with strict=false it sends no
\* response and calls next() once with req.aport = {verified:false, error}.
C4_VerificationErrorStrict ==
    (/\ pc = IF route.options.strict = "false" THEN "handler" ELSE "responded"
     /\ ~NoAgentIdAnywhere
     /\ sdkMock.behaviour = "reject") =>
        IF route.options.strict # "false"
        THEN /\ res.status = 500
             /\ res.error = "Verification error"
             /\ nextCalls = 0
        ELSE /\ res = NoResponse
             /\ nextCalls = 1
             /\ req.aport = [verified |-> FALSE, error |-> "API Error"]

\* C5: when verification succeeds the middleware sends no error response, calls
\* next() exactly once and attaches req.aport with verified=true, the passport
\* the client returned, the policy given to requirePolicy and the agent ID
\* resolved from the same request.
C5_VerifiedAttachesContext ==
    (/\ MiddlewareDone
     /\ Len(verifyLog) > 0
     /\ verifyLog[1].outcome.kind = "return"
     /\ verifyLog[1].outcome.value.verified) =>
        /\ res.status \notin {400, 403, 500}
        /\ (pc = "handler" => res = NoResponse)
        /\ nextCalls = 1
        /\ Len(verifyLog) = 1
        /\ req.aport # Undefined
        /\ req.aport.verified = TRUE
        /\ req.aport.passport = verifyLog[1].outcome.value.passport
        /\ req.aport.policy = route.policy
        /\ Str(req.aport.agentId) = PriorityAgentId

C5_Witness ==
    /\ pc = "handler"
    /\ nextCalls = 1
    /\ ~Qualifies(req.headers.xAgentId)
    /\ req.query.agent_id = Str("agt_2")
    /\ req.body.agent_id = Str("agt_1")
    /\ req.aport # Undefined
    /\ req.aport.verified = TRUE
    /\ req.aport.agentId = "agt_2"
    /\ req.aport.policy = "finance.payment.refund.v1"

\* C6 (as stated): the middleware verifies through the APortClient of
\* @aporthq/sdk-node: for every guarded request that carries an agent ID that
\* client's verify is called once with (route policy, resolved agent ID, context)
\* and the response is determined by what the call returns or throws.
C6_VerifiesThroughSdkClient ==
    (pc = "responded" /\ ~NoAgentIdAnywhere) =>
        /\ Len(sdkMock.calls) = 1
        /\ sdkMock.calls[1].policy = route.policy
        /\ Str(sdkMock.calls[1].agentId) = PriorityAgentId
        /\ res.status = (CASE sdkMock.behaviour = "resolve_verified" -> 200
                           [] sdkMock.behaviour = "reject" ->
                                IF route.options.strict = "false" THEN 200 ELSE 500
                           [] OTHER -> 403)

(***************************************************************************)
(* Properties of the verification client and of the programs using it      *)
(***************************************************************************)
\* APortClient.verify has run up to (or past) its POST
VerifySent == call.op = "verify" /\ pc \in {"awaiting", "settled", "exited"}

\* the Go program has sent its request
GoSent == caller = "go" /\ pc \in {"go_awaiting", "exited"}

\* C7: every verify(policy, agentId, context) call issues one POST to
\* /api/verify/policy/{policy} whose body is {context: {agent_id, policy_id,
\* context}}: policy_id is the policy of the path, agent_id the agent argument,
\* and the caller's context is nested unchanged (client and Go example alike).
C7_VerifyWirePayload ==
    /\ VerifySent =>
          /\ Len(net) = 1
          /\ net[1].method = "POST"
          /\ Len(net[1].path) = 4
          /\ SubSeq(net[1].path, 1, 3) = <<"api", "verify", "policy">>
          /\ (call.policy.type = "string" => net[1].path[4] = call.policy.str)
          /\ DOMAIN net[1].data = {"context"}
          /\ DOMAIN net[1].data.context = {"agent_id", "policy_id", "context"}
          /\ net[1].data.context.policy_id = call.policy
          /\ net[1].data.context.agent_id = call.agentId
          /\ net[1].data.context.context = call.context
          /\ (caller = "library" /\ input.context # Undefined
                => net[1].data.context.context = input.context)
    /\ GoSent =>
          /\ Len(net) = 1
          /\ net[1].method = "POST"
          /\ SubSeq(net[1].path, 1, 3) = <<"api", "verify", "policy">>
          /\ net[1].data.context.policy_id = Str(net[1].path[4])
          /\ net[1].path[4] = (IF input.APORT_POLICY = "" THEN "payments.refund.v1"
                               ELSE input.APORT_POLICY)
          /\ net[1].data.context.agent_id = Str(IF input.APORT_AGENT_ID = "" THEN "ap_128094d3"
                                                ELSE input.APORT_AGENT_ID)

C7_Witness ==
    /\ caller = "library"
    /\ pc = "settled"
    /\ call.policy = Str("payments.refund.v1")
    /\ call.agentId = Str("test-agent")
    /\ call.context = ObjMap({<<"amount", 100>>})
    /\ Len(net) = 1
    /\ net[1].path[4] = "payments.refund.v1"

\* C8 (as stated): a verify request whose policy or agent ID is empty or not a
\* string fails fast with a local validation error: no network call is made.
C8_VerifyFailsFast ==
    (VerifySent /\ (~Qualifies(call.policy) \/ ~Qualifies(call.agentId))) =>
        /\ net = <<>>
        /\ outcome.kind # "return"

\* agent ID and policy the verify command works with
CliAgentId ==
    IF input.interactive THEN input.answers.agent
    ELSE IF Truthy(input.posAgentId) THEN input.posAgentId ELSE input.optAgentId

CliPolicy ==
    IF input.interactive THEN input.answers.policy
    ELSE IF Truthy(input.posPolicy) THEN input.posPolicy ELSE input.optPolicy

\* C8 (amended): the CLI verify command fails fast when its agent ID or policy is
\* missing or empty: it reports "Agent ID and policy are required", exits 1 and
\* makes no network call; APortClient.verify itself validates nothing and sends
\* its POST whatever the arguments.
C8_CliFailsFast ==
    /\ (caller = "cli_verify" /\ (~Qualifies(CliAgentId) \/ ~Qualifies(CliPolicy))) =>
          /\ pc = "exited"
          /\ report.exit = 1
          /\ report.error = "Agent ID and policy are required"
          /\ call = NoCall
          /\ net = <<>>
    /\ VerifySent => Len(net) = 1

C8_Witness ==
    /\ caller = "cli_verify"
    /\ pc = "exited"
    /\ input.posAgentId = Str("")
    /\ input.optAgentId = Undefined
    /\ input.posPolicy = Str("payments.refund.v1")
    /\ report.exit = 1
    /\ net = <<>>

\* a decision object with a boolean allow
WellFormedDecision(d) == d.type = "object" /\ d.allow.type = "boolean"

\* the 200 body carries a decision in both places, with opposite verdicts
BothShapesDiffer(body) ==
    /\ body.data.type = "object"
    /\ WellFormedDecision(body.data.decision)
    /\ WellFormedDecision(body.decision)
    /\ body.data.decision.allow # body.decision.allow

\* C9 (as stated): every place that extracts the decision checks data.decision
\* first and the top-level decision only otherwise; when a response carries both
\* with different content the verdict reported is the one in data.decision.
C9_DataDecisionFirstEverywhere ==
    (/\ pc = "exited"
     /\ caller \in {"cli_verify", "policy_tests", "go"}
     /\ reply.kind = "response"
     /\ reply.status = 200
     /\ BothShapesDiffer(reply.data)) =>
        report.approved = reply.data.data.decision.allow.bool

\* a well-formed Shape-A body {data: {decision: D}}
ShapeA(body) ==
    /\ body.data.type = "object"
    /\ WellFormedDecision(body.data.decision)
    /\ body.decision = Undefined

\* a well-formed Shape-B body {decision: D}
ShapeB(body) ==
    /\ body.data = Undefined
    /\ WellFormedDecision(body.decision)

\* C10 (as stated): a Shape-A response {data: {decision: D}} makes verify return
\* the same result as the Shape-B response {decision: D}.
C10_VerifyResultShapeIndependent ==
    (/\ call.op = "verify"
     /\ pc \in {"settled", "exited"}
     /\ reply.kind = "response"
     /\ reply.status = 200
     /\ ShapeA(reply.data)) =>
        outcome = VerifyOutcome([kind |-> "response", status |-> 200,
                                 data |-> [type |-> "object", data |-> Undefined,
                                           decision |-> reply.data.data.decision]])

\* C10 (amended): verify returns the response body as received, so its result
\* differs between the two envelopes; the verdict the CLI verify command reports
\* (success or failure, and the reason messages) is the same for a well-formed
\* Shape-A and Shape-B response with the same decision content.
C10_CliVerdictShapeIndependent ==
    (/\ caller = "cli_verify"
     /\ pc = "exited"
     /\ reply.kind = "response"
     /\ reply.status = 200
     /\ (ShapeA(reply.data) \/ ShapeB(reply.data))) =>
        LET D == IF ShapeA(reply.data) THEN reply.data.data.decision ELSE reply.data.decision
        IN /\ outcome = [kind |-> "return", value |-> reply.data]
           /\ report.exit = 0
           /\ report.approved = D.allow.bool
           /\ report.verdict = (IF D.allow.bool THEN "successful" ELSE "failed")
           /\ report.reasons = (IF D.reasons.type = "array"
                                THEN [i \in 1..Len(D.reasons.items) |->
                                         D.reasons.items[i].message.str]
                                ELSE <<>>)

C10_Witness ==
    /\ caller = "cli_verify"
    /\ pc = "exited"
    /\ reply.kind = "response"
    /\ reply.status = 200
    /\ ShapeB(reply.data)
    /\ reply.data.decision.allow = Bool(TRUE)
    /\ report.exit = 0
    /\ report.verdict = "successful"

\* the program has reported on a 200 answer
ReportedOn200 ==
    /\ pc = "exited"
    /\ reply.kind = "response"
    /\ reply.status = 200

\* the body has no decision object, neither under data nor at the top level
NoDecisionCarried(body) ==
    /\ (body.data.type = "object" => body.data.decision.type # "object")
    /\ body.decision.type # "object"

\* the decision the service is taken to have sent: data.decision when it is
\* there, the top-level decision otherwise
ServiceDecision(body) ==
    IF body.data.type = "object" /\ body.data.decision.type = "object"
    THEN body.data.decision
    ELSE body.decision

\* a 200 body without a decision, or whose decision has no allow field
MalformedBody(body) ==
    \/ NoDecisionCarried(body)
    \/ ServiceDecision(body).allow = Undefined

\* the message texts of the reasons the service sent with a decision
ServiceReasons(d) ==
    IF d.reasons.type = "array"
    THEN [i \in 1..Len(d.reasons.items) |-> d.reasons.items[i].message.str]
    ELSE <<>>

C12_VerdictEqualsAllow ==
    (/\ ReportedOn200
     /\ caller \in {"cli_verify", "go"}
     /\ ~NoDecisionCarried(reply.data)
     /\ ServiceDecision(reply.data).allow.type = "boolean") =>
        LET D == ServiceDecision(reply.data) IN
        /\ report.exit = 0
        /\ report.approved = D.allow.bool
        /\ report.reasons = ServiceReasons(D)
        /\ caller = "cli_verify" =>
              /\ report.verdict = (IF D.allow.bool THEN "successful" ELSE "failed")
              /\ (~D.allow.bool => (report.unknown <=> ServiceReasons(D) = <<>>))
        /\ caller = "go" =>
              report.verdict = (IF D.allow.bool THEN "ALLOWED" ELSE "DENIED")

C12_Witness ==
    /\ ReportedOn200
    /\ caller = "cli_verify"
    /\ reply.data.data.type = "object"
    /\ reply.data.data.decision.type = "object"
    /\ reply.data.data.decision.allow = Bool(TRUE)
    /\ reply.data.data.decision.reasons.type = "array"
    /\ report.verdict = "successful"
    /\ report.reasons = <<"Message exceeds limit">>

\* a verify call has settled
VerifySettled == call.op = "verify" /\ pc \in {"settled", "exited"}

\* the message the server sent in an error body, if it sent one
ServerMessage(r) ==
    IF r.data.type = "object" /\ r.data.message.type = "string" /\ r.data.message.str # ""
    THEN r.data.message.str
    ELSE ""

NoCredential == ~Truthy(ctorOptions.apiKey) /\ ~Truthy(processEnv.APORT_API_KEY)

\* the request went out with an Authorization header
Authenticated(wire) == \E h \in wire.headers : h[1] = "Authorization" /\ h[2] # "Bearer "

\* the reply is a 2xx answer / anything else
Succeeded(r) == r.kind = "response" /\ r.status = 200

\* the error a method throws for a request that did not succeed
ExpectedRequestError(r) ==
    IF r.kind = "no_response" THEN "Network Error: " \o r.message
    ELSE IF r.data.message.type = "string" THEN "API Error: " \o r.data.message.str
    ELSE IF r.status = 403 THEN "API Error: Forbidden"
    ELSE "API Error: Internal Server Error"

\* C15: createPassport on a client with no credential configured fails with
\* the "API key required for passport creation" error and sends no request; no
\* passport-creation request ever leaves a client without a credential.
C15_CreatePassportNeedsCredential ==
    \A i \in DOMAIN calls :
        LET c == calls[i] IN
        /\ (c.op = "createPassport" /\ NoCredential) =>
              /\ c.state = "done"
              /\ c.sent = <<>>
              /\ c.replies = <<>>
              /\ c.outcome.kind = "throw"
              /\ c.outcome.message = "API key required for passport creation. Set APORT_API_KEY environment variable or use --api-key option."
        /\ \A k \in 1..Len(c.sent) :
              c.sent[k].request.path = <<"api", "issue">> =>
                  /\ ~NoCredential
                  /\ Authenticated(c.sent[k])

C15_Witness ==
    /\ pc = "api_ready"
    /\ ctorOptions.apiKey = Str("")
    /\ processEnv.APORT_API_KEY = Undefined
    /\ calls[1].op = "createPassport"
    /\ calls[1].state = "done"
    /\ calls[1].sent = <<>>
    /\ calls[1].outcome.kind = "throw"

\* C16 (as stated): a credential is required for suspendPassport: on a client
\* with no credential configured it sends no request to /api/suspend and fails
\* locally.
C16_SuspendNeedsCredential ==
    \A i \in DOMAIN calls :
        (calls[i].op = "suspendPassport" /\ NoCredential) =>
            /\ calls[i].sent = <<>>
            /\ calls[i].state = "done"
            /\ calls[i].outcome.kind = "throw"

\* the probe answered with passport data
YieldsPassport(r) ==
    /\ Succeeded(r)
    /\ r.data.type = "object"
    /\ r.data.agent_id.type = "string"
    /\ r.data.agent_id.str # ""

\* C17 (as stated): getPassport always issues the verification probe first and
\* returns its data without a second request when the probe yields passport
\* data; whenever the probe does not yield passport data (it failed, or it
\* answered without passport data) and a credential is configured, the direct
\* lookup GET /api/passports/{agentId} is attempted and its result returned;
\* with no credential and no passport from the probe the call fails with the
\* "API key required" error.
C17_GetPassportFallback ==
    \A i \in DOMAIN calls :
        LET c == calls[i] IN
        c.op = "getPassport" =>
            /\ Len(c.sent) >= 1
            /\ c.sent[1].request.method = "GET"
            /\ c.sent[1].request.path = <<"api", "verify", c.args[1].str>>
            /\ Len(c.replies) >= 1 =>
                  IF YieldsPassport(c.replies[1])
                  THEN /\ c.state = "done"
                       /\ Len(c.sent) = 1
                       /\ c.outcome = [kind |-> "return", value |-> c.replies[1].data]
                  ELSE IF ~NoCredential
                  THEN /\ Len(c.sent) = 2
                       /\ c.sent[2].request.method = "GET"
                       /\ c.sent[2].request.path = <<"api", "passports", c.args[1].str>>
                       /\ Authenticated(c.sent[2])
                       /\ (Len(c.replies) = 2 =>
                              /\ c.state = "done"
                              /\ IF Succeeded(c.replies[2])
                                 THEN c.outcome = [kind |-> "return",
                                                   value |-> c.replies[2].data]
                                 ELSE /\ c.outcome.kind = "throw"
                                      /\ c.outcome.message = ExpectedRequestError(c.replies[2]))
                  ELSE /\ c.state = "done"
                       /\ Len(c.sent) = 1
                       /\ c.outcome.kind = "throw"
                       /\ c.outcome.message = "API key required for passport retrieval. Set APORT_API_KEY environment variable or use --api-key option."

\* C18 (as stated): constructing an APortClient with no apiKey option while
\* APORT_API_KEY is unset throws "APORT_API_KEY environment variable is
\* required"; with options given, apiKey and baseUrl take the option values;
\* with only the environment set they take the environment's key and the
\* default base URL https://api.aport.io.
C18_ConstructorRequiresKey ==
    pc = "api_ready" =>
        /\ (ctorOptions.apiKey = Undefined /\ processEnv.APORT_API_KEY = Undefined) =>
              /\ config.kind = "threw"
              /\ config.message = "APORT_API_KEY environment variable is required"
        /\ (Truthy(ctorOptions.apiKey) /\ Truthy(ctorOptions.baseUrl)) =>
              /\ config.kind = "client"
              /\ config.apiKey = ctorOptions.apiKey
              /\ config.baseUrl = ctorOptions.baseUrl
        /\ (/\ ctorOptions = [apiKey |-> Undefined, baseUrl |-> Undefined]
            /\ Truthy(processEnv.APORT_API_KEY)
            /\ processEnv.APORT_BASE_URL = Undefined) =>
              /\ config.kind = "client"
              /\ config.apiKey = processEnv.APORT_API_KEY
              /\ config.baseUrl = Str("https://api.aport.io")

\* the methods that make a single request
SingleRequestMethods ==
    {"verify", "verifyPolicy", "createPassport", "suspendPassport",
     "getPolicyPack", "listPolicyPacks"}

\* C19: the client performs no automatic retries: a call of verify,
\* verifyPolicy, createPassport, suspendPassport, getPolicyPack or
\* listPolicyPacks issues at most one HTTP request, and once that request has
\* failed (error status or no response) the call is over with an error and
\* nothing is sent again.
C19_NoRetries ==
    \A i \in DOMAIN calls :
        LET c == calls[i] IN
        c.op \in SingleRequestMethods =>
            /\ Len(c.sent) <= 1
            /\ Len(c.replies) <= 1
            /\ (Len(c.replies) = 1 =>
                   /\ c.state = "done"
                   /\ Len(c.sent) = 1
                   /\ (~Succeeded(c.replies[1]) =>
                          /\ c.outcome.kind = "throw"
                          /\ c.outcome.message = ExpectedRequestError(c.replies[1])))

C19_Witness ==
    /\ calls[1].op = "suspendPassport"
    /\ calls[1].state = "done"
    /\ Len(calls[1].replies) = 1
    /\ calls[1].replies[1].kind = "no_response"
    /\ Len(calls[1].sent) = 1
    /\ calls[1].outcome.kind = "throw"

\* what each verify call on the shared client has done is a matter of its own
\* arguments and of the answer to its own request
CallsIndependent ==
    \A i \in DOMAIN calls :
        LET c == calls[i] IN
        c.op = "verify" =>
            /\ Len(c.sent) = 1
            /\ c.sent[1].baseURL = config.baseUrl
            /\ c.sent[1].timeout = 10000
            /\ c.sent[1].request.path = <<"api", "verify", "policy", c.args[1].str>>
            /\ c.sent[1].request.data.context.policy_id = c.args[1]
            /\ c.sent[1].request.data.context.agent_id = c.args[2]
            /\ c.sent[1].request.data.context.context = c.args[3]
            /\ (c.state = "awaiting" <=> c.replies = <<>>)
            /\ (c.state = "done" =>
                   /\ Len(c.replies) = 1
                   /\ IF Succeeded(c.replies[1])
                      THEN c.outcome = [kind |-> "return", value |-> c.replies[1].data]
                      ELSE /\ c.outcome.kind = "throw"
                           /\ c.outcome.message = ExpectedRequestError(c.replies[1]))

\* C20: the client is stateless: its configuration (base URL, credential,
\* timeout) is fixed at construction and no operation changes it, and for any
\* interleaving of concurrent verify calls on one client each call's outcome
\* depends only on its own arguments and its own response, never on the other
\* calls or on the order in which they complete.
C20_StatelessClient ==
    /\ [][pc = "api_ready" => config' = config]_vars
    /\ [](pc = "api_ready" => CallsIndependent)

C20_Witness ==
    /\ pc = "api_ready"
    /\ calls[1].op = "verify"
    /\ calls[1].state = "awaiting"
    /\ calls[2].op = "verify"
    /\ calls[2].state = "done"
    /\ calls[2].args # calls[1].args
    /\ calls[2].outcome.kind = "throw"
    /\ calls[2].replies[1].kind = "no_response"

(***************************************************************************)
(* Termination of verification requests                                    *)
(***************************************************************************)
\* C21 (as stated): every request is sent with a bounded timeout, so every
\* verify call eventually completes, with a result or with a failure, even
\* when the remote service never answers: the call of APortClient.verify as
\* well as the request of the Go program's verifyAgent.
C21_EveryVerifyCompletes ==
    /\ (pc = "awaiting") ~> (pc = "settled")
    /\ (pc = "go_awaiting") ~> (pc = "exited")

(***************************************************************************)
(* One outcome per request in the Express middleware                       *)
(***************************************************************************)
\* an error response of the middleware
ErrorSent(r) == r # NoResponse /\ r.status \in {400, 403, 500}

\* what a verification client may answer for the agent of a guarded request
SettledVerifications(policy, agentId) ==
    {MockVerify(policy, agentId, Undefined),
     [kind |-> "return",
      value |-> [verified |-> FALSE, message |-> Str("Agent not authorized"),
                 details |-> Undefined]],
     [kind |-> "return",
      value |-> [verified |-> FALSE, message |-> Undefined, details |-> Undefined]],
     [kind |-> "throw", message |-> "API Error"]}

\* C27: for every request through requirePolicy, whatever the agent-ID
\* presence, the verification result or error and the strict setting, exactly
\* one of the two happens, exactly once: an error response (400, 403 or 500)
\* is sent and next() is not called, or next() is called once and the
\* middleware sends nothing.
C27_ExactlyOneOutcome ==
    /\ pc \in {"start", "created", "listening", "middleware"} =>
          (res = NoResponse /\ nextCalls = 0)
    /\ pc = "handler" => (res = NoResponse /\ nextCalls = 1)
    /\ (pc = "responded" /\ ~handlerRan) => (ErrorSent(res) /\ nextCalls = 0)
    /\ (pc = "responded" /\ handlerRan) => nextCalls = 1
    /\ pc = "middleware" =>
          \A a \in AgentIds(NumAgentIds) :
             \A out \in SettledVerifications(route.policy, a) :
                LET after == AfterVerify(route.policy, route.options, a, out) IN
                   \/ ErrorSent(after.res) /\ after.next = 0
                   \/ after.res = NoResponse /\ after.next = 1

\* a request carrying an agent ID went through the middleware: no error
\* response, one next(), and the handler answered
C27_Witness ==
    /\ pc = "responded"
    /\ handlerRan
    /\ nextCalls = 1
    /\ route.options.strict = "false"
    /\ ~NoAgentIdAnywhere

(***************************************************************************)
(* verifyPolicy against verify                                             *)
(***************************************************************************)
\* the policy command has reported on a settled verifyPolicy call
PolicyReported == caller = "cli_policy" /\ pc = "exited" /\ Len(net) = 1

\* C30 (as stated): verifyPolicy is an alias of verify: for the same policy,
\* agent ID, context and server response it sends the request verify sends and
\* settles as verify settles, and the CLI's policy command reports the pass or
\* fail verdict the verify command reports for that result.
C30_VerifyPolicyAlias ==
    PolicyReported =>
        /\ net[1] = VerifyRequest(call.policy, call.agentId, call.context)
        /\ outcome = VerifyOutcome(reply)
        /\ report.exit = CliVerifyReportOutcome(outcome).exit
        /\ report.exit = 0 => report.approved = CliVerifyReportOutcome(outcome).approved

(***************************************************************************)
(* Properties of the Next.js application                                   *)
(***************************************************************************)
\* the middleware has run on the request and returned
MiddlewareReturned == nextResponse # NoNextResponse

\* the policy the documentation assigns to each requested path
DocumentedPolicy(path) ==
    CASE path \in {"/api/admin/dashboard", "/api/administrators"} -> "admin.access.v1"
      [] path \in {"/api/payments/refund", "/api/payments/refunds"} -> "payments.refund.v1"
      [] path = "/api/payments/transfer" -> "payments.transfer.v1"
      [] OTHER -> "default.access.v1"

\* C22: the middleware chooses the policy from the request path alone
\* (admin.access.v1 under /api/admin, payments.refund.v1 under
\* /api/payments/refund, payments.transfer.v1 under /api/payments/transfer,
\* default.access.v1 for every other non-exempt path), and the policy passed
\* to verify and the x-aport-policy value set on success are that same policy.
C22_PolicyFromPath ==
    /\ Len(nextVerifyLog) <= 1
    /\ Len(nextVerifyLog) = 1 =>
          nextVerifyLog[1].policy = DocumentedPolicy(nextRequest.path)
    /\ (MiddlewareReturned /\ nextResponse.kind = "next"
        /\ nextResponse.headers.xAportVerified = Str("true")) =>
          /\ Len(nextVerifyLog) = 1
          /\ nextResponse.headers.xAportPolicy = Str(nextVerifyLog[1].policy)
          /\ nextResponse.headers.xAportPolicy = Str(DocumentedPolicy(nextRequest.path))
    /\ pc = "next_served" =>
          served.headers.xAportPolicy \in {Null, Str(DocumentedPolicy(nextRequest.path))}

\* a verified request under /api/admin that is not the dashboard itself was
\* checked against admin.access.v1 and answered with that policy in its header
C22_Witness ==
    /\ pc = "next_served"
    /\ nextRequest.path = "/api/administrators"
    /\ Len(nextVerifyLog) = 1
    /\ nextVerifyLog[1].policy = "admin.access.v1"
    /\ served.headers.xAportPolicy = Str("admin.access.v1")

\* the requested paths that are '/' or start with /_next, /favicon.ico or
\* /api/public
ExemptPaths ==
    {"/", "/favicon.ico", "/_next/static/app.js", "/_next/data/build/index.json",
     "/api/public/health", "/api/publicity"}

\* neither header nor the query parameter carries an agent ID
NoNextAgentId ==
    /\ nextRequest.headers.xAgentId \in {Null, Str("")}
    /\ nextRequest.headers.xAportAgentId \in {Null, Str("")}
    /\ nextRequest.query.agent_id \in {Null, Str("")}

\* C23: requests whose path is '/' or starts with /_next, /favicon.ico or
\* /api/public pass without an agent ID and without any verify call; every
\* other request the middleware handles is answered 400 'Agent ID required'
\* when neither x-agent-id, x-aport-agent-id nor agent_id carries an ID.
C23_ExemptPathsAndMissingId ==
    /\ (pc \in {"next_route", "next_served"} /\ nextRequest.path \in ExemptPaths) =>
          /\ nextVerifyLog = <<>>
          /\ nextResponse.kind # "json"
          /\ served.status \in {0, 200, 404}
    /\ (MiddlewareReturned /\ nextRequest.path \notin ExemptPaths /\ NoNextAgentId) =>
          /\ pc = "next_served"
          /\ served.status = 400
          /\ served.error = "Agent ID required"
          /\ nextVerifyLog = <<>>

\* the health check was served to a caller that sent no agent ID at all
C23_Witness ==
    /\ pc = "next_served"
    /\ nextRequest.path = "/api/public/health"
    /\ NoNextAgentId
    /\ MiddlewareReturned
    /\ served.status = 200

\* C24 (as stated): whenever APORT_API_KEY is not set the application uses the
\* mock client, and the mock client accepts exactly the agent test-agent-123.
C24_MockClientWithoutApiKey ==
    /\ (pc # "next_load" /\ nextEnv.APORT_API_KEY = Undefined) =>
          nextClient = "MockAPortClient"
    /\ (nextClient = "MockAPortClient" /\ Len(nextVerifyLog) = 1) =>
          (nextVerifyLog[1].outcome.value.verified = Bool(TRUE)
             <=> nextVerifyLog[1].agentId = "test-agent-123")

\* the middleware verified the agent of the request and forwarded it
VerifiedByMiddleware ==
    /\ MiddlewareReturned
    /\ nextResponse.kind = "next"
    /\ nextResponse.headers.xAportVerified = Str("true")

\* C25 (as stated): once the middleware has verified a request, the route
\* handler of the same request reads x-aport-verified = 'true', the verified
\* agent ID and the passport from its request headers and processes the
\* request instead of answering 401.
C25_HandlerReadsVerification ==
    (pc = "next_served" /\ nextRequest.path \in GuardedRoutes /\ VerifiedByMiddleware) =>
        /\ served.status # 401
        /\ served.success => served.agent_id = nextResponse.headers.xAportAgentId

\* limit of the passport the middleware obtained for the request, if any
VerifiedLimit(name) ==
    IF Len(nextVerifyLog) = 1 /\ nextVerifyLog[1].outcome.kind = "return"
    THEN PassportLimit(IF Truthy(nextVerifyLog[1].outcome.value.passport)
                       THEN nextVerifyLog[1].outcome.value.passport ELSE Null, name)
    ELSE Undefined

\* the limit that applies to the payment route of the request
PaymentLimit ==
    VerifiedLimit(IF nextRequest.path = "/api/payments/refund"
                  THEN "refund_amount_max_per_tx" ELSE "transfer_amount_max_per_tx")

PaymentServed ==
    /\ pc = "next_served"
    /\ nextRequest.path \in {"/api/payments/refund", "/api/payments/transfer"}

\* C26 (as stated): a refund or transfer is processed (success: true) only if
\* the amount is a positive number that does not exceed the per-transaction
\* limit of the verified agent's passport; an amount above the limit is
\* answered 403.
C26_AmountWithinVerifiedLimit ==
    /\ (PaymentServed /\ served.success) =>
          /\ served.amount.type = "number"
          /\ served.amount.num > 0
          /\ PaymentLimit.type = "number" => served.amount.num <= PaymentLimit.num
    /\ (PaymentServed /\ VerifiedByMiddleware /\ nextRequest.body.type = "object"
        /\ PaymentLimit.type = "number" /\ nextRequest.body.amount.type = "number"
        /\ nextRequest.body.amount.num > PaymentLimit.num) =>
          served.status = 403

\* the deployment runs in development mode
DevelopmentMode ==
    \/ nextEnv.NODE_ENV = Str("development")
    \/ nextEnv.globalNODE_ENV = Str("development")

\* the agent ID of the request: x-agent-id, else x-aport-agent-id, else agent_id
ResolvedAgentId ==
    IF nextRequest.headers.xAgentId \notin {Null, Str("")}
    THEN nextRequest.headers.xAgentId
    ELSE IF nextRequest.headers.xAportAgentId \notin {Null, Str("")}
    THEN nextRequest.headers.xAportAgentId
    ELSE nextRequest.query.agent_id

\* C28: outside development mode the middleware forwards a non-exempt request
\* only if verify returned verified = true for the resolved agent ID and the
\* routed policy; verified = false is answered 403, and a verify that throws
\* or a missing client is answered 500.
C28_FailClosedOutsideDevelopment ==
    (MiddlewareReturned /\ nextRequest.path \notin ExemptPaths /\ ~DevelopmentMode) =>
        /\ nextResponse.kind = "next" =>
              /\ Len(nextVerifyLog) = 1
              /\ nextVerifyLog[1].outcome.kind = "return"
              /\ nextVerifyLog[1].outcome.value.verified = Bool(TRUE)
              /\ Str(nextVerifyLog[1].agentId) = ResolvedAgentId
              /\ nextVerifyLog[1].policy = DocumentedPolicy(nextRequest.path)
        /\ (Len(nextVerifyLog) = 1 /\ nextVerifyLog[1].outcome.kind = "return"
            /\ nextVerifyLog[1].outcome.value.verified = Bool(FALSE)) =>
              (nextResponse.kind = "json" /\ nextResponse.status = 403)
        /\ (~NoNextAgentId
            /\ (nextClient = "undefined"
                \/ (Len(nextVerifyLog) = 1 /\ nextVerifyLog[1].outcome.kind = "throw"))) =>
              (nextResponse.kind = "json" /\ nextResponse.status = 500)

\* production without the SDK installed: there is no client, and the request
\* of an agent was answered 500
C28_Witness ==
    /\ pc = "next_served"
    /\ nextEnv.NODE_ENV = Str("production")
    /\ ~DevelopmentMode
    /\ nextClient = "undefined"
    /\ ~NoNextAgentId
    /\ nextRequest.path = "/api/payments/refund"
    /\ served.status = 500
    /\ served.error = "Verification error"

\* the request as it is without the x-aport-verified and x-aport-passport
\* headers the caller added
WithoutCallerAportHeaders(r) ==
    [r EXCEPT !.headers.xAportVerified = Null, !.headers.xAportPassport = Null]

\* C29 (as stated): the identity a route handler acts on is the one the
\* middleware verified, whatever x-agent-id or x-aport-* headers the caller
\* sent: a processed request carries the verified agent ID and the verified
\* passport's limits, and the x-aport-* headers a caller adds to a request do
\* not change its outcome.
C29_HandlerActsOnVerifiedIdentity ==
    (pc = "next_served" /\ nextRequest.path \in GuardedRoutes
     /\ nextResponse.kind = "next") =>
        /\ served.success =>
              /\ VerifiedByMiddleware
              /\ served.agent_id = Str(nextVerifyLog[1].agentId)
        /\ served.status = RouteOutcome(WithoutCallerAportHeaders(nextRequest)).status

====
